---- MODULE Spec2Model ----
(***************************************************************************)
(* The course scheduler of services/scheduler: CPSATSolver.solve builds a  *)
(* CP model (decision variables, assignment shape, hard constraints) from  *)
(* a SolverInput, hands it to the CP-SAT backend and extracts one          *)
(* Assignment per section from the returned valuation.                     *)
(*                                                                         *)
(* The CpModel is state: the four variable tables and the list of          *)
(* constraints added so far.  The backend is a nondeterministic choice of  *)
(* any valuation that satisfies the model (or INFEASIBLE when none does,   *)
(* UNKNOWN when the time limit strikes first, or MODEL_INVALID when a      *)
(* variable has an empty domain); with an objective, OPTIMAL goes with a   *)
(* valuation of least objective and FEASIBLE with any.                     *)
(*                                                                         *)
(* Spec runs POST /solve (api/routes.py) around CPSATSolver.solve.         *)
(* DbSpec runs the persistence of db/repository.py: save_solver_output     *)
(* transactions, called directly or by POST /solve-from-db, next to        *)
(* commit_schedule_version and a reader, over the tables of a PostgreSQL   *)
(* database at its default isolation level READ COMMITTED.                 *)
(* ValidateSpec runs POST /validate.  PoolSpec runs the tasks that call    *)
(* init_pool, get_connection and close_pool of db/connection.py, with      *)
(* every await a point where another task runs.                            *)
(***************************************************************************)
EXTENDS Integers, Sequences, FiniteSets, TLC

VARIABLES
    input,                      \* CPSATSolver.input (SolverInput)
    pc,                         \* position inside solve_schedule and CPSATSolver.solve
    section_pattern_vars,       \* (section, pattern) -> domain of the variable
    section_room_vars,          \* (section, room)    -> domain of the variable
    section_room_pattern_vars,  \* (section, room, pattern) -> domain
    section_instructor_vars,    \* (section, instructor) -> domain
    constraints,                \* constraints added to the CpModel
    workload,                   \* the load variables and constraints of the CpModel
    preference_penalties,       \* the penalty terms of the instructor time preferences
    load_values,                \* instructor -> the values of its load variables
    objective_value,            \* SolverResult.objective_value
    max_time_in_seconds,        \* solver.parameters.max_time_in_seconds
    status,                     \* SolverResult.status
    solution,                   \* the variables the backend set to 1
    assignments,                \* SolverOutput.assignments
    request,                    \* SolveRequest.async_mode and .callback_url
    response,                   \* the HTTP answer of POST /solve
    schedule_versions,          \* scheduling.schedule_versions, committed rows
    solver_runs,                \* scheduling.solver_runs, committed rows
    section_assignments,        \* scheduling.section_assignments, committed rows
    instructor_assignments,     \* scheduling.instructor_assignments, committed rows
    constraint_violations,      \* scheduling.constraint_violations, committed rows
    txn,                        \* caller -> its save_solver_output call and transaction
    initial_assignments,        \* section_assignments before any call (history)
    commit_order,               \* the callers in the order of their COMMIT (history)
    publish_log,                \* the commit_schedule_version calls so far (history)
    _pool,                      \* db/connection.py: the module global _pool
    pools,                      \* the pools asyncpg.create_pool has returned (history)
    calls                       \* caller -> its init_pool, get_connection or close_pool call

solver_vars == <<input, pc, section_pattern_vars, section_room_vars,
                 section_room_pattern_vars, section_instructor_vars,
                 constraints, workload, preference_penalties, load_values,
                 objective_value, max_time_in_seconds, status, solution,
                 assignments>>

api_vars == <<request, response>>

table_vars == <<schedule_versions, solver_runs, section_assignments,
               instructor_assignments, constraint_violations, txn,
               initial_assignments, commit_order, publish_log>>

pool_vars == <<_pool, pools, calls>>

db_vars == <<table_vars, pool_vars>>

vars == <<solver_vars, api_vars, db_vars>>

\* Python's None for an optional id or string
None == "None"

(***************************************************************************)
(* Bounds of the explored inputs                                           *)
(***************************************************************************)
\* sections of an input are s1 .. s<NumSections>
NumSections == 2
\* expected_enrollment ranges over 1 .. MaxEnrollment
MaxEnrollment == 2

(***************************************************************************)
(* Sequence and set helpers                                                *)
(***************************************************************************)
Range(seq) == {seq[k] : k \in DOMAIN seq}

(***************************************************************************)
(* Domain model (models/domain.py)                                         *)
(***************************************************************************)
Time(h, m) == [hour |-> h, minute |-> m]

MeetingTime(d, s, e) == [day_of_week |-> d, start_time |-> s, end_time |-> e]

MeetingPattern(id, times) == [id |-> id, times |-> times]

Room(id, cap, feats) == [id |-> id, capacity |-> cap, features |-> feats]

\* A float (a load, the credit hours, a weight) is kept in hundredths: 1200 is
\* 12.0 and 25 is 0.25.  int() truncates toward zero.
\* int(x)
int_of(hundredths) ==
    IF hundredths >= 0 THEN hundredths \div 100 ELSE -((-hundredths) \div 100)
\* int(x * 10)
int_times_10(hundredths) ==
    IF hundredths >= 0 THEN hundredths \div 10 ELSE -((-hundredths) \div 10)

PROHIBITED == -2
DISCOURAGED == -1
NEUTRAL == 0
PREFERRED == 1
REQUIRED == 2

\* an optional field is an option: {} is None, {v} is the value v
InstructorPreference(day_of_week, start_time, end_time, meeting_pattern_id, preference_level) ==
    [day_of_week |-> day_of_week, start_time |-> start_time,
     end_time |-> end_time, meeting_pattern_id |-> meeting_pattern_id,
     preference_level |-> preference_level]

\* target_load is an option: {} is None, {t} is the load t
Instructor(id) ==
    [id |-> id, min_load |-> 0, max_load |-> 1200, target_load |-> {},
     time_preferences |-> <<>>]

Course(id, feats) == [id |-> id, required_room_features |-> feats]

\* a Section with every optional field at its default
Section(id) ==
    [id |-> id,
     course_id |-> "c1",
     expected_enrollment |-> 1,
     credit_hours |-> 300,
     allowed_meeting_pattern_ids |-> {},    \* None and the empty set are both falsy
     allowed_room_ids |-> {},
     required_room_features |-> {},
     preferred_instructor_ids |-> <<>>,
     assigned_instructor_ids |-> <<>>,
     cross_list_group_id |-> None,
     link_group_id |-> None,
     is_link_parent |-> FALSE,
     fixed_meeting_pattern_id |-> None,
     fixed_room_id |-> None,
     fixed_date_pattern_id |-> None]

\* time.__lt__: comparison of (hour, minute)
TimeLT(a, b) == a.hour < b.hour \/ (a.hour = b.hour /\ a.minute < b.minute)

(***************************************************************************)
(* constraints/hard.py: pattern predicates                                 *)
(***************************************************************************)
patterns_overlap(p1, p2) ==
    \E a \in DOMAIN p1.times : \E b \in DOMAIN p2.times :
        LET t1 == p1.times[a]
            t2 == p2.times[b]
        IN  /\ t1.day_of_week = t2.day_of_week
            /\ TimeLT(t1.start_time, t2.end_time)
            /\ TimeLT(t2.start_time, t1.end_time)

get_pattern_days(pattern) ==
    {pattern.times[k].day_of_week : k \in DOMAIN pattern.times}

max_gap_minutes == 30

\* _patterns_compatible_immediately_after without the lower end of "0 <= gap"
compatible_gap_unbounded_below(parent_pattern, child_pattern) ==
    \E i \in DOMAIN parent_pattern.times, j \in DOMAIN child_pattern.times :
        /\ parent_pattern.times[i].day_of_week = child_pattern.times[j].day_of_week
        /\ (child_pattern.times[j].start_time.hour * 60
                + child_pattern.times[j].start_time.minute)
             - (parent_pattern.times[i].end_time.hour * 60
                + parent_pattern.times[i].end_time.minute) <= max_gap_minutes

patterns_compatible_immediately_after(parent_pattern, child_pattern) ==
    LET common_days == get_pattern_days(parent_pattern)
                           \cap get_pattern_days(child_pattern)
    IN  \E day \in common_days :
          \E a \in DOMAIN parent_pattern.times :
            \E b \in DOMAIN child_pattern.times :
              LET pt == parent_pattern.times[a]
                  ct == child_pattern.times[b]
                  parent_end_minutes == pt.end_time.hour * 60 + pt.end_time.minute
                  child_start_minutes ==
                      ct.start_time.hour * 60 + ct.start_time.minute
                  gap == child_start_minutes - parent_end_minutes
              IN  /\ pt.day_of_week = day
                  /\ ct.day_of_week = day
                  /\ 0 <= gap
                  /\ gap <= max_gap_minutes

(***************************************************************************)
(* The CpModel: variables are named by tagged keys, a variable's entry in  *)
(* its table is its domain, and every constraint is                        *)
(*     lo <= sum(pos) - sum(neg) <= hi         (kind "lin")                *)
(*     product(pos) = the variable in neg      (kind "mul")                *)
(***************************************************************************)
SP(s, p) == <<"sp", s, p>>
SR(s, r) == <<"sr", s, r>>
SRP(s, r, p) == <<"srp", s, r, p>>
SI(s, i) == <<"si", s, i>>

NewBoolVar == {0, 1}
NewConstant(v) == {v}

Lin(pos, neg, lo, hi) ==
    [kind |-> "lin", pos |-> pos, neg |-> neg, lo |-> lo, hi |-> hi]

\* model.AddMultiplicationEquality(target, factors)
AddMultiplicationEquality(target, factors) ==
    [kind |-> "mul", pos |-> factors, neg |-> {target}, lo |-> 0, hi |-> 0]
\* model.AddExactlyOne(vs)
AddExactlyOne(vs) == Lin(vs, {}, 1, 1)
\* model.AddAtMostOne(vs)
AddAtMostOne(vs) == Lin(vs, {}, 0, 1)
\* model.Add(sum(vs) <= k)
AddSumLe(vs, k) == Lin(vs, {}, 0, k)
\* model.Add(sum(vs) >= v)
AddSumGe(vs, v) == Lin(vs, {v}, 0, Cardinality(vs))
\* model.Add(v == c)
AddEqConst(v, c) == Lin({v}, {}, c, c)
\* model.Add(a == b)
AddEq(a, b) == Lin({a}, {b}, 0, 0)

(***************************************************************************)
(* Lookup tables of CPSATSolver.__init__                                   *)
(***************************************************************************)
PatternIds(inp) == {inp.meeting_patterns[k].id : k \in DOMAIN inp.meeting_patterns}
RoomIds(inp) == {inp.rooms[k].id : k \in DOMAIN inp.rooms}

pattern_by_id(inp, pid) ==
    CHOOSE p \in Range(inp.meeting_patterns) : p.id = pid
room_by_id(inp, rid) == CHOOSE r \in Range(inp.rooms) : r.id = rid
section_by_id(inp, sid) == CHOOSE s \in Range(inp.sections) : s.id = sid

\* course_features.get(course_id, set())
course_features(inp, cid) ==
    UNION {c.required_room_features : c \in {c \in Range(inp.courses) : c.id = cid}}

(***************************************************************************)
(* CPSATSolver._create_variables                                           *)
(***************************************************************************)
allowed_patterns(inp, section) ==
    IF section.allowed_meeting_pattern_ids # {}
    THEN section.allowed_meeting_pattern_ids
    ELSE PatternIds(inp)

allowed_rooms(inp, section) ==
    IF section.allowed_room_ids # {}
    THEN section.allowed_room_ids
    ELSE RoomIds(inp)

potential_instructors(section) ==
    Range(section.preferred_instructor_ids)
        \ Range(section.assigned_instructor_ids)

\* pattern_var without the "if section.fixed_meeting_pattern_id" branch
pattern_var_never_fixed(section, pattern_id) == NewBoolVar

\* the domain of the variable created for (section, pattern_id)
pattern_var(section, pattern_id) ==
    IF section.fixed_meeting_pattern_id # None
    THEN NewConstant(IF pattern_id = section.fixed_meeting_pattern_id
                     THEN 1 ELSE 0)
    ELSE NewBoolVar

\* the domain of the variable created for (section, room_id)
room_var(section, room_id) ==
    IF section.fixed_room_id # None
    THEN NewConstant(IF room_id = section.fixed_room_id THEN 1 ELSE 0)
    ELSE NewBoolVar

create_pattern_vars(inp) ==
    LET keys == UNION {{<<s.id, p>> : p \in allowed_patterns(inp, s)} :
                       s \in Range(inp.sections)}
    IN  [k \in keys |-> pattern_var(section_by_id(inp, k[1]), k[2])]

create_room_vars(inp) ==
    LET keys == UNION {{<<s.id, r>> : r \in allowed_rooms(inp, s)} :
                       s \in Range(inp.sections)}
    IN  [k \in keys |-> room_var(section_by_id(inp, k[1]), k[2])]

create_room_pattern_vars(inp) ==
    LET keys == UNION {{<<s.id, r, p>> : r \in allowed_rooms(inp, s),
                                         p \in allowed_patterns(inp, s)} :
                       s \in Range(inp.sections)}
    IN  [k \in keys |-> NewBoolVar]

create_instructor_vars(inp) ==
    LET keys == UNION {{<<s.id, i>> : i \in potential_instructors(s)} :
                       s \in Range(inp.sections)}
    IN  [k \in keys |-> NewBoolVar]

\* "Link to individual variables": var = pattern_var AND room_var
link_constraints(inp) ==
    {AddMultiplicationEquality(SRP(k[1], k[2], k[3]),
                               {SP(k[1], k[3]), SR(k[1], k[2])}) :
        k \in DOMAIN create_room_pattern_vars(inp)}

(***************************************************************************)
(* CPSATSolver._add_assignment_constraints                                 *)
(***************************************************************************)
assignment_constraints(inp, spv, srv, siv) ==
    LET one_pattern(s) ==
            LET pattern_vars == {SP(s.id, p) : p \in
                    {p \in PatternIds(inp) : <<s.id, p>> \in DOMAIN spv}}
            IN  IF pattern_vars # {} THEN {AddExactlyOne(pattern_vars)} ELSE {}
        one_room(s) ==
            LET room_vars == {SR(s.id, r) : r \in
                    {r \in RoomIds(inp) : <<s.id, r>> \in DOMAIN srv}}
            IN  IF room_vars # {} THEN {AddExactlyOne(room_vars)} ELSE {}
        one_instructor(s) ==
            LET instructor_vars == {SI(s.id, i) : i \in
                    {i \in Range(s.preferred_instructor_ids) :
                        <<s.id, i>> \in DOMAIN siv}}
            IN  IF s.assigned_instructor_ids = <<>> /\ instructor_vars # {}
                THEN {AddAtMostOne(instructor_vars)} ELSE {}
    IN  UNION {one_pattern(s) \cup one_room(s) \cup one_instructor(s) :
               s \in Range(inp.sections)}

(***************************************************************************)
(* constraints/hard.py                                                     *)
(***************************************************************************)
\* the "pattern overlap matrix" built by the room and instructor rules
overlapping_patterns(inp, p1_id) ==
    {p2.id : p2 \in {p2 \in Range(inp.meeting_patterns) :
                        /\ p1_id # p2.id
                        /\ patterns_overlap(pattern_by_id(inp, p1_id), p2)}}

\* add_room_conflict_constraints without its "for each pattern" rule: only
\* pairs of distinct overlapping patterns are constrained
room_conflict_distinct_patterns_only(inp, srpv) ==
    LET room_section_by_pattern(room_id, pattern_id) ==
            {SRP(s.id, room_id, pattern_id) : s \in
                {s \in Range(inp.sections) :
                    <<s.id, room_id, pattern_id>> \in DOMAIN srpv}}
        overlap_pairs ==
            {pair \in PatternIds(inp) \X PatternIds(inp) :
                pair[2] \in overlapping_patterns(inp, pair[1])}
        overlapping(room_id) ==
            {AddSumLe(room_section_by_pattern(room_id, pair[1])
                        \cup room_section_by_pattern(room_id, pair[2]), 1) :
                pair \in {pair \in overlap_pairs :
                    /\ room_section_by_pattern(room_id, pair[1]) # {}
                    /\ room_section_by_pattern(room_id, pair[2]) # {}}}
    IN  UNION {overlapping(r) : r \in RoomIds(inp)}

add_room_conflict_constraints(inp, srpv) ==
    LET room_section_by_pattern(room_id, pattern_id) ==
            {SRP(s.id, room_id, pattern_id) : s \in
                {s \in Range(inp.sections) :
                    <<s.id, room_id, pattern_id>> \in DOMAIN srpv}}
        same_pattern(room_id) ==
            {AddSumLe(room_section_by_pattern(room_id, p), 1) : p \in
                {p \in PatternIds(inp) :
                    Cardinality(room_section_by_pattern(room_id, p)) > 1}}
        overlap_pairs ==
            {pair \in PatternIds(inp) \X PatternIds(inp) :
                pair[2] \in overlapping_patterns(inp, pair[1])}
        overlapping(room_id) ==
            {AddSumLe(room_section_by_pattern(room_id, pair[1])
                        \cup room_section_by_pattern(room_id, pair[2]), 1) :
                pair \in {pair \in overlap_pairs :
                    /\ room_section_by_pattern(room_id, pair[1]) # {}
                    /\ room_section_by_pattern(room_id, pair[2]) # {}}}
    IN  UNION {same_pattern(r) \cup overlapping(r) : r \in RoomIds(inp)}

all_instructor_ids(inp) ==
    UNION {Range(s.assigned_instructor_ids) \cup Range(s.preferred_instructor_ids) :
           s \in Range(inp.sections)}

\* indices (in input order) of the sections an instructor might teach
instructor_sections(inp, siv, instructor_id) ==
    {k \in DOMAIN inp.sections :
        \/ <<inp.sections[k].id, instructor_id>> \in DOMAIN siv
        \/ instructor_id \in Range(inp.sections[k].assigned_instructor_ids)}

\* the (instructor, s1, s2, p1, p2) combinations whose inner "if" is entered
instructor_conflict_cases(inp, spv, siv) ==
    {c \in [instructor_id : all_instructor_ids(inp),
            s1 : DOMAIN inp.sections, s2 : DOMAIN inp.sections,
            p1_id : PatternIds(inp), p2_id : PatternIds(inp)] :
        /\ Cardinality(instructor_sections(inp, siv, c.instructor_id)) >= 2
        /\ c.s1 \in instructor_sections(inp, siv, c.instructor_id)
        /\ c.s2 \in instructor_sections(inp, siv, c.instructor_id)
        /\ c.s1 < c.s2
        /\ c.p2_id \in overlapping_patterns(inp, c.p1_id)
        /\ <<inp.sections[c.s1].id, c.p1_id>> \in DOMAIN spv
        /\ <<inp.sections[c.s2].id, c.p2_id>> \in DOMAIN spv}

add_instructor_conflict_constraints(inp, spv, siv) ==
    LET emit(c) ==
            LET s1 == inp.sections[c.s1]
                s2 == inp.sections[c.s2]
                var_s1_p1 == SP(s1.id, c.p1_id)
                var_s2_p2 == SP(s2.id, c.p2_id)
                has_s1_inst == <<s1.id, c.instructor_id>> \in DOMAIN siv
                has_s2_inst == <<s2.id, c.instructor_id>> \in DOMAIN siv
            IN  IF has_s1_inst /\ has_s2_inst
                THEN {AddSumLe({var_s1_p1, var_s2_p2,
                                SI(s1.id, c.instructor_id),
                                SI(s2.id, c.instructor_id)}, 3)}
                ELSE IF c.instructor_id \in Range(s1.assigned_instructor_ids)
                THEN {AddSumLe({var_s1_p1, var_s2_p2,
                                SI(s2.id, c.instructor_id)}, 2)}
                ELSE IF c.instructor_id \in Range(s2.assigned_instructor_ids)
                THEN {AddSumLe({var_s1_p1, var_s2_p2,
                                SI(s1.id, c.instructor_id)}, 2)}
                ELSE {}
    IN  UNION {emit(c) : c \in instructor_conflict_cases(inp, spv, siv)}

\* var_s1_p1 + var_s2_p2 + var_s2_inst with var_s2_inst = None: TypeError
instructor_conflict_type_error(inp, spv, siv) ==
    \E c \in instructor_conflict_cases(inp, spv, siv) :
        LET s1 == inp.sections[c.s1]
            s2 == inp.sections[c.s2]
        IN  /\ ~(/\ <<s1.id, c.instructor_id>> \in DOMAIN siv
                 /\ <<s2.id, c.instructor_id>> \in DOMAIN siv)
            /\ c.instructor_id \in Range(s1.assigned_instructor_ids)
            /\ <<s2.id, c.instructor_id>> \notin DOMAIN siv

\* "if var_s1_p1 and var_s2_p2" asks an IntVar for its truth value.  That is
\* IntVar.__bool__ of the OR-tools release in use, which the repository does not
\* pin: a release whose LinearExpr defines __bool__ raises NotImplementedError
\* there, any other evaluates the variable as true.
instructor_conflict_bool_evaluated(inp, spv, siv) ==
    \E instructor_id \in all_instructor_ids(inp) :
        \E s1 \in instructor_sections(inp, siv, instructor_id) :
            /\ \E s2 \in instructor_sections(inp, siv, instructor_id) : s1 < s2
            /\ \E p1_id \in PatternIds(inp) :
                   /\ overlapping_patterns(inp, p1_id) # {}
                   /\ <<inp.sections[s1].id, p1_id>> \in DOMAIN spv

\* add_room_capacity_constraints that passes over the sections whose room is fixed
room_capacity_unfixed_only(inp, srv) ==
    {AddEqConst(SR(k[1], k[2]), 0) : k \in
        {k \in DOMAIN srv :
            /\ k[2] \in RoomIds(inp)
            /\ section_by_id(inp, k[1]).fixed_room_id = None
            /\ room_by_id(inp, k[2]).capacity
                   < section_by_id(inp, k[1]).expected_enrollment}}

add_room_capacity_constraints(inp, srv) ==
    {AddEqConst(SR(k[1], k[2]), 0) : k \in
        {k \in DOMAIN srv :
            /\ k[2] \in RoomIds(inp)
            /\ room_by_id(inp, k[2]).capacity
                   < section_by_id(inp, k[1]).expected_enrollment}}

\* required_features without the features of the section's course
required_features_section_only(inp, section) ==
    section.required_room_features

required_features(inp, section) ==
    section.required_room_features \cup course_features(inp, section.course_id)

add_room_feature_constraints(inp, srv) ==
    {AddEqConst(SR(k[1], k[2]), 0) : k \in
        {k \in DOMAIN srv :
            /\ k[2] \in RoomIds(inp)
            /\ required_features(inp, section_by_id(inp, k[1]))
                   \ room_by_id(inp, k[2]).features # {}}}

\* indices (in input order) of the sections that carry a given group id
cross_list_group(inp, group_id) ==
    {k \in DOMAIN inp.sections : inp.sections[k].cross_list_group_id = group_id}

cross_list_group_ids(inp) ==
    {s.cross_list_group_id : s \in Range(inp.sections)} \ {None}

\* the smallest index of a non-empty set of indices: group_sections[0]
First(idx) == CHOOSE k \in idx : \A j \in idx : k <= j

add_cross_list_constraints(inp, spv, srv) ==
    LET for_pair(anchor, other) ==
            LET anchor_pattern_ids == {k[2] : k \in {k \in DOMAIN spv : k[1] = anchor.id}}
                other_pattern_ids == {k[2] : k \in {k \in DOMAIN spv : k[1] = other.id}}
                common_patterns == anchor_pattern_ids \cap other_pattern_ids
                anchor_room_ids == {k[2] : k \in {k \in DOMAIN srv : k[1] = anchor.id}}
                other_room_ids == {k[2] : k \in {k \in DOMAIN srv : k[1] = other.id}}
                common_rooms == anchor_room_ids \cap other_room_ids
            IN  {AddEq(SP(anchor.id, p), SP(other.id, p)) : p \in common_patterns}
                \cup {AddEq(SR(anchor.id, r), SR(other.id, r)) : r \in common_rooms}
        for_group(group_id) ==
            LET group_sections == cross_list_group(inp, group_id)
                anchor == First(group_sections)
            IN  IF Cardinality(group_sections) < 2 THEN {}
                ELSE UNION {for_pair(inp.sections[anchor], inp.sections[k]) :
                            k \in group_sections \ {anchor}}
    IN  UNION {for_group(g) : g \in cross_list_group_ids(inp)}

link_group(inp, group_id) ==
    {k \in DOMAIN inp.sections : inp.sections[k].link_group_id = group_id}

link_group_ids(inp) == {s.link_group_id : s \in Range(inp.sections)} \ {None}

\* parents[0] of a link group of at least two sections
link_parent(inp, group_id) ==
    LET group_sections == link_group(inp, group_id)
        parents == {k \in group_sections : inp.sections[k].is_link_parent}
    IN  IF parents = {} THEN First(group_sections) ELSE First(parents)

link_children(inp, group_id) ==
    LET group_sections == link_group(inp, group_id)
        parents == {k \in group_sections : inp.sections[k].is_link_parent}
    IN  IF parents = {} THEN group_sections \ {First(group_sections)}
        ELSE group_sections \ parents

\* the known candidate patterns of a section (pattern_by_id.get succeeds)
section_patterns(inp, spv, section) ==
    {k[2] : k \in {k \in DOMAIN spv : k[1] = section.id /\ k[2] \in PatternIds(inp)}}

add_immediately_after_constraint(inp, spv, parent, child) ==
    LET compatible_child_pids(parent_pid) ==
            {child_pid \in section_patterns(inp, spv, child) :
                patterns_compatible_immediately_after(
                    pattern_by_id(inp, parent_pid), pattern_by_id(inp, child_pid))}
    IN  {IF compatible_child_pids(parent_pid) = {}
         THEN AddEqConst(SP(parent.id, parent_pid), 0)
         ELSE AddSumGe({SP(child.id, cpid) : cpid \in compatible_child_pids(parent_pid)},
                       SP(parent.id, parent_pid)) :
            parent_pid \in section_patterns(inp, spv, parent)}

add_same_day_constraint(inp, spv, parent, child) ==
    LET compatible_child_pids(parent_pid) ==
            {child_pid \in section_patterns(inp, spv, child) :
                get_pattern_days(pattern_by_id(inp, parent_pid))
                    \cap get_pattern_days(pattern_by_id(inp, child_pid)) # {}}
    IN  {AddSumGe({SP(child.id, cpid) : cpid \in compatible_child_pids(parent_pid)},
                  SP(parent.id, parent_pid)) :
            parent_pid \in {pid \in section_patterns(inp, spv, parent) :
                               compatible_child_pids(pid) # {}}}

add_different_day_constraint(inp, spv, parent, child) ==
    LET compatible_child_pids(parent_pid) ==
            {child_pid \in section_patterns(inp, spv, child) :
                get_pattern_days(pattern_by_id(inp, parent_pid))
                    \cap get_pattern_days(pattern_by_id(inp, child_pid)) = {}}
    IN  {AddSumGe({SP(child.id, cpid) : cpid \in compatible_child_pids(parent_pid)},
                  SP(parent.id, parent_pid)) :
            parent_pid \in {pid \in section_patterns(inp, spv, parent) :
                               compatible_child_pids(pid) # {}}}

\* constraint_options.get("link_connector_type", "immediately_after")
link_connector_type(inp) ==
    IF inp.constraint_options.link_connector_type = None
    THEN "immediately_after"
    ELSE inp.constraint_options.link_connector_type

add_linked_section_constraints(inp, spv) ==
    LET for_child(parent, child) ==
            IF link_connector_type(inp) = "immediately_after"
            THEN add_immediately_after_constraint(inp, spv, parent, child)
            ELSE IF link_connector_type(inp) = "same_day"
            THEN add_same_day_constraint(inp, spv, parent, child)
            ELSE IF link_connector_type(inp) = "different_day"
            THEN add_different_day_constraint(inp, spv, parent, child)
            ELSE {}
        for_group(group_id) ==
            IF Cardinality(link_group(inp, group_id)) < 2 THEN {}
            ELSE UNION {for_child(inp.sections[link_parent(inp, group_id)],
                                  inp.sections[k]) :
                        k \in link_children(inp, group_id)}
    IN  UNION {for_group(g) : g \in link_group_ids(inp)}

\* CPSATSolver._add_hard_constraints
hard_constraints(inp, spv, srv, srpv, siv) ==
    add_room_conflict_constraints(inp, srpv)
        \cup add_instructor_conflict_constraints(inp, spv, siv)
        \cup add_room_capacity_constraints(inp, srv)
        \cup add_room_feature_constraints(inp, srv)
        \cup add_cross_list_constraints(inp, spv, srv)
        \cup add_linked_section_constraints(inp, spv)

(***************************************************************************)
(* The CP-SAT backend: a valuation is the set of variables that are 1.     *)
(***************************************************************************)
Holds(c, ones) ==
    IF c.kind = "mul"
    THEN (c.pos \subseteq ones) <=> (c.neg \subseteq ones)
    ELSE LET v == Cardinality(c.pos \cap ones) - Cardinality(c.neg \cap ones)
         IN  c.lo <= v /\ v <= c.hi

Value(ones, ref) == IF ref \in ones THEN 1 ELSE 0

\* every valuation that respects the domains and satisfies every constraint;
\* a product constraint determines its target, so the enumeration runs over the
\* pattern, room and instructor variables and filters as early as it can
Solutions(spv, srv, srpv, siv, cons) ==
    LET sp_refs == {SP(k[1], k[2]) : k \in DOMAIN spv}
        sr_refs == {SR(k[1], k[2]) : k \in DOMAIN srv}
        si_refs == {SI(k[1], k[2]) : k \in DOMAIN siv}
        srp_refs == {SRP(k[1], k[2], k[3]) : k \in DOMAIN srpv}
        muls == {c \in cons : c.kind = "mul"}
        targets == UNION {c.neg : c \in muls}
        over(refs) == {c \in cons : c.pos \cup c.neg \subseteq refs}
        cons_sp == over(sp_refs)
        cons_sr == over(sr_refs)
        cons_si == over(si_refs)
        cons_room == over(sp_refs \cup sr_refs \cup srp_refs) \ (cons_sp \cup cons_sr)
        cons_rest == cons \ (cons_sp \cup cons_sr \cup cons_si \cup cons_room)
        XS == {a \in SUBSET sp_refs :
                /\ \A k \in DOMAIN spv : Value(a, SP(k[1], k[2])) \in spv[k]
                /\ \A c \in cons_sp : Holds(c, a)}
        YS == {a \in SUBSET sr_refs :
                /\ \A k \in DOMAIN srv : Value(a, SR(k[1], k[2])) \in srv[k]
                /\ \A c \in cons_sr : Holds(c, a)}
        WS == {a \in SUBSET si_refs :
                /\ \A k \in DOMAIN siv : Value(a, SI(k[1], k[2])) \in siv[k]
                /\ \A c \in cons_si : Holds(c, a)}
        \* the product variables of a valuation of the patterns and rooms
        ZS(a) ==
            LET fixed == {t \in srp_refs \cap targets :
                            \E c \in muls : t \in c.neg /\ c.pos \subseteq a}
            IN  {fixed \cup free : free \in SUBSET (srp_refs \ targets)}
        XYZ == {a \in UNION {{xy[1] \cup xy[2] \cup z : z \in ZS(xy[1] \cup xy[2])} :
                             xy \in XS \X YS} :
                    \A c \in cons_room : Holds(c, a)}
    IN  {a \in {t[1] \cup t[2] : t \in XYZ \X WS} :
            \A c \in cons_rest : Holds(c, a)}

(***************************************************************************)
(* CPSATSolver._extract_solution                                           *)
(***************************************************************************)
assigned_pattern_id(inp, spv, ones, section) ==
    LET hit == {k \in DOMAIN inp.meeting_patterns :
                  /\ <<section.id, inp.meeting_patterns[k].id>> \in DOMAIN spv
                  /\ Value(ones, SP(section.id, inp.meeting_patterns[k].id)) = 1}
    IN  IF hit = {} THEN None ELSE inp.meeting_patterns[First(hit)].id

assigned_room_id(inp, srv, ones, section) ==
    LET hit == {k \in DOMAIN inp.rooms :
                  /\ <<section.id, inp.rooms[k].id>> \in DOMAIN srv
                  /\ Value(ones, SR(section.id, inp.rooms[k].id)) = 1}
    IN  IF hit = {} THEN None ELSE inp.rooms[First(hit)].id

assigned_instructors(inp, siv, ones, section) ==
    LET chosen(instructor) ==
            /\ <<section.id, instructor.id>> \in DOMAIN siv
            /\ Value(ones, SI(section.id, instructor.id)) = 1
        picked == SelectSeq(inp.instructors, chosen)
    IN  section.assigned_instructor_ids \o [k \in DOMAIN picked |-> picked[k].id]

date_pattern_id(inp, section) ==
    IF section.fixed_date_pattern_id # None
    THEN section.fixed_date_pattern_id
    ELSE IF inp.date_patterns # <<>> THEN inp.date_patterns[1].id ELSE None

Assignment(inp, spv, srv, siv, ones, section) ==
    LET assigned_pattern == assigned_pattern_id(inp, spv, ones, section)
        assigned_room == assigned_room_id(inp, srv, ones, section)
        is_assigned == assigned_pattern # None /\ assigned_room # None
    IN  [section_id |-> section.id,
         meeting_pattern_id |-> assigned_pattern,
         date_pattern_id |-> date_pattern_id(inp, section),
         room_id |-> assigned_room,
         instructor_ids |-> assigned_instructors(inp, siv, ones, section),
         is_assigned |-> is_assigned,
         unassigned_reason |-> IF is_assigned THEN None
                               ELSE "No feasible assignment found"]

extract_solution(inp, spv, srv, siv, ones) ==
    [k \in DOMAIN inp.sections |->
        Assignment(inp, spv, srv, siv, ones, inp.sections[k])]

(***************************************************************************)
(* constraints/soft.py: add_instructor_workload_penalties.  The load       *)
(* variables are integers; a valuation of the Boolean variables extends    *)
(* to them exactly when WorkloadFeasible holds.                            *)
(***************************************************************************)
RECURSIVE SumLoads(_)
\* sum of the second components of a set of <<key, load>> pairs
SumLoads(terms) ==
    IF terms = {} THEN 0
    ELSE LET t == CHOOSE t \in terms : TRUE IN t[2] + SumLoads(terms \ {t})

\* int(credit_hours * 10)
load_scaled(section) == int_times_10(section.credit_hours)

add_instructor_workload_penalties(inp, siv) ==
    LET var_terms(instructor) ==
            {<<SI(s.id, instructor.id), load_scaled(s)>> : s \in
                {s \in Range(inp.sections) : <<s.id, instructor.id>> \in DOMAIN siv}}
        const_terms(instructor) ==
            {<<<<"const", s.id>>, load_scaled(s)>> : s \in
                {s \in Range(inp.sections) :
                    /\ <<s.id, instructor.id>> \notin DOMAIN siv
                    /\ instructor.id \in Range(s.assigned_instructor_ids)}}
        max_possible_load(instructor) ==
            SumLoads(var_terms(instructor)) + SumLoads(const_terms(instructor))
    IN  {[instructor_id |-> instructor.id,
          var_terms |-> var_terms(instructor),
          const_load |-> SumLoads(const_terms(instructor)),
          \* total_load = NewIntVar(0, max_possible_load)
          total_load_ub |-> max_possible_load(instructor),
          \* underload = NewIntVar(0, min_threshold), only "if min_load > 0"
          min_threshold |-> IF instructor.min_load > 0
                            THEN {int_times_10(instructor.min_load)} ELSE {},
          max_threshold |-> int_times_10(instructor.max_load),
          \* overload and deviation = NewIntVar(0, max_possible_load * 10)
          overload_ub |-> max_possible_load(instructor) * 10,
          target |-> {int_times_10(t) : t \in instructor.target_load}] :
         instructor \in {i \in Range(inp.instructors) :
                            var_terms(i) # {} \/ const_terms(i) # {}}}

\* total_load == sum(load_terms) under a valuation
TotalLoad(w, ones) ==
    w.const_load + SumLoads({t \in w.var_terms : t[1] \in ones})

\* some values of total_load, underload, overload and deviation satisfy
\*   total_load == sum(load_terms), underload >= min_threshold - total_load,
\*   overload >= total_load - max_threshold, deviation == |total_load - target|
WorkloadFeasible(w, ones) ==
    LET total == TotalLoad(w, ones)
    IN  /\ total \in 0..w.total_load_ub
        /\ \A m \in w.min_threshold :
              \E underload \in 0..m : underload >= m - total
        /\ \E overload \in {0, total - w.max_threshold} :
              /\ overload \in 0..w.overload_ub
              /\ overload >= total - w.max_threshold
        /\ \A target \in w.target :
              (IF total >= target THEN total - target ELSE target - total)
                  \in 0..w.overload_ub

\* weights.get("instructor_underload", 20) and the like: the explored inputs
\* carry no constraint_weights
underload_weight == 20
overload_weight == 50
target_weight == 5

\* the values the load variables of one instructor can take under a
\* valuation: total_load in its domain and equal to the sum, underload and
\* overload in their domains and above their bounds, deviation in its domain
\* and equal to |total_load - target|; an absent variable is the option {}
LoadValues(w, ones) ==
    LET total == TotalLoad(w, ones)
        distance(a, c) == IF a >= c THEN a - c ELSE c - a
    IN  [total_load : {total} \cap 0..w.total_load_ub,
         underload : IF w.min_threshold = {} THEN {{}}
                     ELSE UNION {{{u} : u \in {u \in 0..m : u >= m - total}} :
                                    m \in w.min_threshold},
         overload : {o \in 0..w.overload_ub : o >= total - w.max_threshold},
         deviation : IF w.target = {} THEN {{}}
                     ELSE {{d} : d \in {distance(total, target) :
                                            target \in w.target}
                                        \cap 0..w.overload_ub}]

\* the least of these values, for the inputs whose load variables are not
\* followed one value at a time
least_load_values(w, ones) ==
    LET total == TotalLoad(w, ones)
        over(a, c) == IF a > c THEN a - c ELSE 0
    IN  [total_load |-> total,
         underload |-> {over(m, total) : m \in w.min_threshold},
         overload |-> over(total, w.max_threshold),
         deviation |-> {over(total, target) + over(target, total) :
                            target \in w.target}]

\* the penalties of one instructor with the underload term left out
PenaltyAt_without_underload(v) ==
    v.overload * overload_weight
        + SumLoads({<<"deviation", d * target_weight>> : d \in v.deviation})

\* underload * underload_weight + overload * overload_weight
\*     + deviation * target_weight, the penalties of one instructor
PenaltyAt(v) ==
    SumLoads({<<"underload", u * underload_weight>> : u \in v.underload})
        + v.overload * overload_weight
        + SumLoads({<<"deviation", d * target_weight>> : d \in v.deviation})

(***************************************************************************)
(* constraints/soft.py: add_instructor_preference_penalties                *)
(***************************************************************************)
\* _time_in_range: start <= check_time < end
time_in_range(check_time, start, end) ==
    ~TimeLT(check_time, start) /\ TimeLT(check_time, end)

pattern_matches_preference(pattern, pref) ==
    IF pref.meeting_pattern_id # {}
    THEN pref.meeting_pattern_id = {pattern.id}
    ELSE \E k \in DOMAIN pattern.times :
            LET meeting_time == pattern.times[k]
            IN  /\ pref.day_of_week \in {{}, {meeting_time.day_of_week}}
                /\ IF pref.start_time # {} /\ pref.end_time # {}
                   THEN \E start \in pref.start_time, end \in pref.end_time :
                           \/ time_in_range(meeting_time.start_time, start, end)
                           \/ time_in_range(meeting_time.end_time, start, end)
                   ELSE pref.day_of_week # {}

\* int(weights.get("instructor_time_preference", 10))
base_weight(inp) ==
    LET weight == inp.constraint_weights.instructor_time_preference
    IN  IF weight = {} THEN 10 ELSE int_of(CHOOSE h \in weight : TRUE)

\* penalty_value with REQUIRED rewarded like PREFERRED
penalty_value_required_as_preferred(base, preference_level) ==
    CASE preference_level = PROHIBITED -> base * 100
      [] preference_level = DISCOURAGED -> base * 2
      [] preference_level \in {PREFERRED, REQUIRED} -> -base
      [] OTHER -> 0

penalty_value(base, preference_level) ==
    CASE preference_level = PROHIBITED -> base * 100
      [] preference_level = DISCOURAGED -> base * 2
      [] preference_level = PREFERRED -> -base
      [] preference_level = REQUIRED -> -base * 2
      [] OTHER -> 0

\* one entry of penalties per section, instructor of the section, pattern
\* variable of the section and matching preference (by position) of non-zero
\* penalty_value.  penalty_var is the product of pattern_var and
\* instructor_var, or equals pattern_var when the instructor is pre-assigned;
\* an instructor of the section without a variable is pre-assigned, so the
\* variable is always tied.
add_instructor_preference_penalties(inp, spv, siv) ==
    LET instructor_ids(section) ==
            Range(section.assigned_instructor_ids)
                \cup Range(section.preferred_instructor_ids)
        cases ==
            {c \in [s : DOMAIN inp.sections, i : DOMAIN inp.instructors,
                    p : DOMAIN inp.meeting_patterns] :
                /\ inp.instructors[c.i].id \in instructor_ids(inp.sections[c.s])
                /\ <<inp.sections[c.s].id, inp.meeting_patterns[c.p].id>>
                       \in DOMAIN spv}
        value(c, n) ==
            penalty_value(base_weight(inp),
                          inp.instructors[c.i].time_preferences[n].preference_level)
        entries(c) ==
            {n \in DOMAIN inp.instructors[c.i].time_preferences :
                /\ pattern_matches_preference(inp.meeting_patterns[c.p],
                       inp.instructors[c.i].time_preferences[n])
                /\ value(c, n) # 0}
        penalty(c, n) ==
            [section_id |-> inp.sections[c.s].id,
             instructor_id |-> inp.instructors[c.i].id,
             pattern_id |-> inp.meeting_patterns[c.p].id,
             pref |-> n,
             penalty_value |-> value(c, n),
             pattern_var |-> SP(inp.sections[c.s].id, inp.meeting_patterns[c.p].id),
             instructor_var |->
                 IF <<inp.sections[c.s].id, inp.instructors[c.i].id>> \in DOMAIN siv
                 THEN {SI(inp.sections[c.s].id, inp.instructors[c.i].id)}
                 ELSE {}]
    IN  UNION {{penalty(c, n) : n \in entries(c)} : c \in cases}

\* the value of penalty_var under a valuation
penalty_var_value(penalty, ones) ==
    IF {penalty.pattern_var} \cup penalty.instructor_var \subseteq ones
    THEN 1 ELSE 0

\* sum(penalties), the expression handed to model.Minimize, under a valuation
\* and values of the load variables (instructor -> values)
Objective(penalties, ws, ones, vals) ==
    SumLoads({<<penalty, penalty_var_value(penalty, ones) * penalty.penalty_value>> :
                 penalty \in penalties})
        + SumLoads({<<w.instructor_id, PenaltyAt(vals[w.instructor_id])>> : w \in ws})

(***************************************************************************)
(* The explored inputs                                                     *)
(***************************************************************************)
\* MWF 9:00-9:50 and TR 10:00-11:15 are the patterns of tests/test_solver.py
P1 == MeetingPattern("p1", <<MeetingTime(1, Time(9, 0), Time(9, 50)),
                             MeetingTime(3, Time(9, 0), Time(9, 50)),
                             MeetingTime(5, Time(9, 0), Time(9, 50))>>)
P2 == MeetingPattern("p2", <<MeetingTime(2, Time(10, 0), Time(11, 15)),
                             MeetingTime(4, Time(10, 0), Time(11, 15))>>)
\* MWF 10:00-10:50 starts ten minutes after P1 ends
P3 == MeetingPattern("p3", <<MeetingTime(1, Time(10, 0), Time(10, 50)),
                             MeetingTime(3, Time(10, 0), Time(10, 50)),
                             MeetingTime(5, Time(10, 0), Time(10, 50))>>)
\* M 9:30-10:45 overlaps P1 and P3
P4 == MeetingPattern("p4", <<MeetingTime(1, Time(9, 30), Time(10, 45))>>)
\* MWF 10:25-11:15 starts 35 minutes after P1 ends
P5 == MeetingPattern("p5", <<MeetingTime(1, Time(10, 25), Time(11, 15)),
                             MeetingTime(3, Time(10, 25), Time(11, 15)),
                             MeetingTime(5, Time(10, 25), Time(11, 15))>>)

R1 == Room("r1", 2, {})
R2 == Room("r2", 1, {"f1"})

SectionNames == <<"s1", "s2", "s3", "s4">>
RoomNames == <<"r1", "r2">>

\* the instructors carry the default workload and no time preferences
BaseInput ==
    [meeting_patterns |-> <<P1, P2>>,
     date_patterns |-> <<[id |-> "d1"], [id |-> "d2"]>>,
     rooms |-> <<R1, R2>>,
     instructors |-> <<Instructor("i1"), Instructor("i2")>>,
     courses |-> <<Course("c1", {}), Course("c2", {"f1"})>>,
     sections |-> <<>>,
     \* an absent key of constraint_weights is the option {}
     constraint_weights |-> [instructor_time_preference |-> {}],
     constraint_options |-> [link_connector_type |-> None],
     time_limit_seconds |-> 300]

\* section k of an input: the defaults overridden by the fields of a variant
Variant(k, v) ==
    [f \in DOMAIN Section(SectionNames[k]) |->
        IF f \in DOMAIN v THEN v[f] ELSE Section(SectionNames[k])[f]]

\* every way to give each of the NumSections sections one of the variants
SectionLists(variants) ==
    {[k \in 1..NumSections |-> Variant(k, choice[k])] :
        choice \in [1..NumSections -> variants]}

\* section k may only use room k (alternating), so rooms are no choice
OwnRoom(k) == {RoomNames[((k - 1) % 2) + 1]}

\* instructors: pre-assigned and/or preferred, over disjoint or overlapping patterns
InstructorInputs ==
    LET variants == [assigned_instructor_ids : {<<>>, <<"i1">>},
                     preferred_instructor_ids : {<<>>, <<"i1">>, <<"i1", "i2">>}]
    IN  {[BaseInput EXCEPT !.sections = ss, !.meeting_patterns = mp] :
            ss \in SectionLists(variants), mp \in {<<P1, P2>>, <<P1, P4>>}}

\* cross-listing over equal, different and dangling candidate sets
CrossListInputs ==
    LET variants ==
            [cross_list_group_id : {None, "g1"},
             allowed_meeting_pattern_ids : {{}, {"p1"}, {"p2"}, {"p1", "pX"}},
             allowed_room_ids : {{}}]
            \cup [cross_list_group_id : {"g1"},
                  allowed_meeting_pattern_ids : {{}},
                  allowed_room_ids : {{"r1"}, {"r2", "rX"}}]
    IN  {[BaseInput EXCEPT !.sections = ss] : ss \in SectionLists(variants)}

\* capacity and fixed rooms over two overlapping patterns
CapacityInputs ==
    LET variants == [expected_enrollment : 1..MaxEnrollment,
                     fixed_room_id : {None, "r1", "r2"}]
    IN  {[BaseInput EXCEPT !.sections = ss, !.meeting_patterns = <<P1, P4>>] :
            ss \in SectionLists(variants)}

\* features required by the section, by its course, by both or by neither
FeatureInputs ==
    LET variants == [required_room_features : {{}, {"f1"}, {"f2"}},
                     course_id : {"c1", "c2", "c3"}]
    IN  {[BaseInput EXCEPT !.sections = ss] : ss \in SectionLists(variants)}

\* link groups under every connector
LinkInputs ==
    LET variants == [link : {<<None, FALSE>>, <<"g1", FALSE>>, <<"g1", TRUE>>},
                     allowed_meeting_pattern_ids : {{}, {"p1"}, {"p2", "p5"}}]
        section(k, v) ==
            Variant(k, [link_group_id |-> v.link[1],
                        is_link_parent |-> v.link[2],
                        allowed_meeting_pattern_ids |-> v.allowed_meeting_pattern_ids,
                        allowed_room_ids |-> OwnRoom(k)])
    IN  {[BaseInput EXCEPT
            !.sections = [k \in 1..NumSections |-> section(k, choice[k])],
            !.meeting_patterns = <<P1, P2, P3, P5>>,
            !.constraint_options = [link_connector_type |-> connector]] :
            choice \in [1..NumSections -> variants],
            connector \in {None, "immediately_after", "same_day", "different_day"}}

\* fixed patterns, rooms and date patterns, also without any pattern or room
FixedInputs ==
    LET variants ==
            [fixed_meeting_pattern_id : {None, "p1", "pX"},
             fixed_room_id : {None, "r2"},
             fixed_date_pattern_id : {None}]
            \cup [fixed_meeting_pattern_id : {None},
                  fixed_room_id : {None},
                  fixed_date_pattern_id : {"d2"}]
    IN  {[BaseInput EXCEPT !.sections = ss, !.meeting_patterns = lists[1],
                           !.rooms = lists[2], !.date_patterns = dp] :
            ss \in SectionLists(variants),
            lists \in {<<<<P1, P2>>, <<R1, R2>>>>, <<<<>>, <<R1, R2>>>>,
                       <<<<P1, P2>>, <<>>>>},
            dp \in {<<>>, <<[id |-> "d1"], [id |-> "d2"]>>}}

\* enrollments up to the largest room or beyond every room, with and without
\* one instructor pre-assigned, over patterns of which only p1 and p4 overlap
EnrollmentInputs ==
    LET variants == [expected_enrollment : {1, MaxEnrollment},
                     assigned_instructor_ids : {<<>>, <<"i1">>}]
    IN  {[BaseInput EXCEPT !.sections = ss, !.meeting_patterns = <<P1, P2, P4>>,
                           !.rooms = rs] :
            ss \in SectionLists(variants), rs \in {<<R1, R2>>, <<R2>>}}

\* the input without sections, rooms or patterns
EmptyInput ==
    [BaseInput EXCEPT !.meeting_patterns = <<>>, !.date_patterns = <<>>,
                      !.rooms = <<>>, !.instructors = <<>>, !.courses = <<>>]

\* two sections of 0.1 or 0.15 credit hours, each in its own room at the one
\* pattern, that instructor i1 may teach, teaches or does not teach, under
\* four workloads of i1: the default, min_load 0.25 with max_load 0.1, a
\* target_load of 0.1 and a target_load of 1.2; i2 has a min_load and no
\* section.  The second section may have negative credit hours.
WorkloadInputs ==
    LET loads == {[min_load |-> 0, max_load |-> 1200, target_load |-> {}],
                  [min_load |-> 25, max_load |-> 10, target_load |-> {}],
                  [min_load |-> 0, max_load |-> 1200, target_load |-> {10}],
                  [min_load |-> 0, max_load |-> 1200, target_load |-> {120}]}
        variants == {<<10, <<>>, <<>>>>, <<10, <<"i1">>, <<>>>>,
                     <<15, <<"i1">>, <<>>>>, <<10, <<>>, <<"i1">>>>,
                     <<-10, <<"i1">>, <<>>>>}
        section(k, v) ==
            Variant(k, [credit_hours |-> v[1],
                        preferred_instructor_ids |-> v[2],
                        assigned_instructor_ids |-> v[3],
                        allowed_room_ids |-> OwnRoom(k)])
        instructors(l) ==
            <<[Instructor("i1") EXCEPT !.min_load = l.min_load,
                                       !.max_load = l.max_load,
                                       !.target_load = l.target_load],
              [Instructor("i2") EXCEPT !.min_load = 100]>>
    IN  {[BaseInput EXCEPT
            !.sections = [k \in 1..2 |-> section(k, choice[k])],
            !.meeting_patterns = <<P1>>,
            !.instructors = instructors(l)] :
            choice \in {c \in [1..2 -> variants] : c[1][1] > 0},
            l \in loads}

\* two sections, each in its own room, over two patterns that do not overlap;
\* i1 is pre-assigned or preferred, or an instructor that is not in the input
\* is preferred; i1 has one of four lists of time preferences
PreferenceInputs ==
    LET pattern(id, level) == InstructorPreference({}, {}, {}, {id}, level)
        preferences ==
            {<<pattern("p1", PROHIBITED),
               InstructorPreference({2}, {}, {}, {}, PREFERRED)>>,
             <<InstructorPreference({}, {Time(9, 0)}, {Time(9, 30)}, {}, DISCOURAGED),
               InstructorPreference({}, {Time(11, 0)}, {Time(12, 0)}, {}, REQUIRED)>>,
             <<pattern("p2", NEUTRAL),
               InstructorPreference({1}, {Time(9, 0)}, {}, {}, PREFERRED),
               InstructorPreference({}, {Time(9, 0)}, {}, {}, DISCOURAGED)>>,
             <<pattern("p1", DISCOURAGED), pattern("p1", DISCOURAGED)>>}
        variants == {<<<<>>, <<"i1">>>>, <<<<"i1">>, <<>>>>, <<<<"iX">>, <<>>>>}
        section(k, v) ==
            Variant(k, [preferred_instructor_ids |-> v[1],
                        assigned_instructor_ids |-> v[2],
                        allowed_room_ids |-> OwnRoom(k)])
    IN  {[BaseInput EXCEPT
            !.sections = [k \in 1..2 |-> section(k, choice[k])],
            !.instructors = <<[Instructor("i1") EXCEPT !.time_preferences = prefs],
                              Instructor("i2")>>,
            !.constraint_weights = [instructor_time_preference |-> weight]] :
            choice \in [1..2 -> variants],
            prefs \in preferences,
            weight \in {{}, {250}, {50}}}

\* the time limits a client of POST /solve sends with one section
TimeLimits == {-1, 5, 10, 3600, 7200}

\* SolveFromDbRequest.time_limit_seconds: None, or any int
RequestTimeLimits == {{}, {0}, {-1}, {60}, {7200}}

\* solve_from_database before the solver runs: load_solver_input builds the
\* SolverInput without a time limit, so it carries the default of the field,
\* and a truthy time_limit_seconds of the request replaces it unvalidated
\* (None and 0 are falsy)
solve_from_db_input(loaded, time_limit_seconds) ==
    IF time_limit_seconds \in {{}, {0}}
    THEN loaded
    ELSE [loaded EXCEPT
            !.time_limit_seconds = CHOOSE t \in time_limit_seconds : TRUE]

\* the inputs that reach the solver with one section: sent to POST /solve
\* with a time limit, or loaded by POST /solve-from-db
LimitInputs ==
    {[BaseInput EXCEPT !.sections = <<Section("s1")>>,
                       !.time_limit_seconds = t] : t \in TimeLimits}
        \cup {solve_from_db_input([BaseInput EXCEPT !.sections = <<Section("s1")>>], t) :
                t \in RequestTimeLimits}

Inputs ==
    InstructorInputs \cup CrossListInputs \cup CapacityInputs \cup FeatureInputs
        \cup LinkInputs \cup FixedInputs \cup EnrollmentInputs \cup {EmptyInput}
        \cup WorkloadInputs \cup PreferenceInputs \cup LimitInputs

(***************************************************************************)
(* POST /solve: SolveRequest and solve_schedule                            *)
(***************************************************************************)
\* async_mode and callback_url next to an input; the asynchronous requests
\* are explored over two families of inputs
Requests(inp) ==
    IF inp \in EnrollmentInputs \cup {EmptyInput}
    THEN [async_mode : BOOLEAN, callback_url : {None, "", "http://callback"}]
    ELSE {[async_mode |-> FALSE, callback_url |-> None]}

\* "not request.callback_url": None and the empty string are falsy
callback_url_missing(req) == req.callback_url \in {None, ""}

HTTP_200_OK == 200
HTTP_400_BAD_REQUEST == 400
HTTP_500_INTERNAL_SERVER_ERROR == 500
HTTP_501_NOT_IMPLEMENTED == 501

\* the asynchronous branch answered 501 whatever the callback_url
async_rejection_always_501(req) == HTTP_501_NOT_IMPLEMENTED

\* the HTTPException the asynchronous branch of solve_schedule raises
async_rejection(req) ==
    IF callback_url_missing(req)
    THEN HTTP_400_BAD_REQUEST
    ELSE HTTP_501_NOT_IMPLEMENTED

\* uuid4() of the one solve of a request
solver_run_id == "run1"

\* no table, no caller: the database plays no part in POST /solve
DatabaseAtRest ==
    /\ schedule_versions = <<>>
    /\ solver_runs = {}
    /\ section_assignments = {}
    /\ instructor_assignments = {}
    /\ constraint_violations = {}
    /\ txn = <<>>
    /\ initial_assignments = {}
    /\ commit_order = <<>>
    /\ publish_log = <<>>

(***************************************************************************)
(* db/connection.py: the connection pool                                   *)
(***************************************************************************)
\* the tasks of the event loop that call into db/connection.py, one call each
NumCallers == 3
Callers == 1..NumCallers

\* a task that has not called yet
IdleCall == [pc |-> "idle", via |-> None, pool |-> {}]

\* the application is serving: lifespan has awaited init_pool before the
\* first request, and no task is inside db/connection.py
PoolStarted ==
    /\ _pool = {1}
    /\ pools = <<"open">>
    /\ calls = [c \in Callers |-> IdleCall]

\* the module is imported and nothing has run: _pool = None
PoolNotCreated ==
    /\ _pool = {}
    /\ pools = <<>>
    /\ calls = [c \in Callers |-> IdleCall]

\* init_pool up to its first suspension, called directly (lifespan) or as
\* the first statement of get_connection: "if _pool is None" is evaluated,
\* and the task either is suspended in "await asyncpg.create_pool(...)" or
\* returns the pool it found
InitPoolCall ==
    \E c \in Callers, via \in {"init_pool", "get_connection"} :
        /\ calls[c].pc = "idle"
        /\ calls' = [calls EXCEPT ![c] =
                        IF _pool = {}
                        THEN [pc |-> "create_pool", via |-> via, pool |-> {}]
                        ELSE [pc |-> "returned", via |-> via, pool |-> _pool]]
        /\ UNCHANGED <<_pool, pools, solver_vars, api_vars, table_vars>>

\* asyncpg.create_pool returns a new pool: it is assigned to _pool and returned
CreatePoolReturns ==
    \E c \in Callers :
        /\ calls[c].pc = "create_pool"
        /\ pools' = Append(pools, "open")
        /\ _pool' = {Len(pools) + 1}
        /\ calls' = [calls EXCEPT ![c].pc = "returned",
                                  ![c].pool = {Len(pools) + 1}]
        /\ UNCHANGED <<solver_vars, api_vars, table_vars>>

\* asyncpg.create_pool raises (the server does not answer): no assignment
CreatePoolRaises ==
    \E c \in Callers :
        /\ calls[c].pc = "create_pool"
        /\ calls' = [calls EXCEPT ![c].pc = "raised"]
        /\ UNCHANGED <<_pool, pools, solver_vars, api_vars, table_vars>>

\* close_pool up to its suspension: "if _pool" is evaluated, and the task is
\* suspended in "await _pool.close()" or returns at once
ClosePoolCall ==
    \E c \in Callers :
        /\ calls[c].pc = "idle"
        /\ calls' = [calls EXCEPT ![c] =
                        IF _pool # {}
                        THEN [pc |-> "close", via |-> "close_pool", pool |-> _pool]
                        ELSE [pc |-> "returned", via |-> "close_pool", pool |-> {}]]
        /\ UNCHANGED <<_pool, pools, solver_vars, api_vars, table_vars>>

\* the pool is closed and "_pool = None" runs, whatever _pool holds by then
ClosePoolReturns ==
    \E c \in Callers :
        /\ calls[c].pc = "close"
        /\ pools' = [k \in DOMAIN pools |->
                        IF k \in calls[c].pool THEN "closed" ELSE pools[k]]
        /\ _pool' = {}
        /\ calls' = [calls EXCEPT ![c].pc = "returned"]
        /\ UNCHANGED <<solver_vars, api_vars, table_vars>>

(***************************************************************************)
(* CPSATSolver.solve, step by step                                         *)
(***************************************************************************)
Init ==
    /\ input \in Inputs
    /\ request \in Requests(input)
    /\ response = <<>>
    /\ DatabaseAtRest
    /\ PoolStarted
    /\ pc = "start"
    /\ section_pattern_vars = <<>>
    /\ section_room_vars = <<>>
    /\ section_room_pattern_vars = <<>>
    /\ section_instructor_vars = <<>>
    /\ constraints = {}
    /\ workload = {}
    /\ preference_penalties = {}
    /\ load_values = <<>>
    /\ objective_value = 0
    /\ max_time_in_seconds = {}
    /\ status = None
    /\ solution = {}
    /\ assignments = <<>>

\* solve_schedule, asynchronous branch: HTTPException before any solver exists
SolveScheduleAsync ==
    /\ pc = "start"
    /\ request.async_mode
    /\ response' = [status_code |-> async_rejection(request)]
    /\ pc' = "answered"
    /\ UNCHANGED <<input, section_pattern_vars, section_room_vars,
                   section_room_pattern_vars, section_instructor_vars,
                   constraints, workload, preference_penalties, load_values,
                   objective_value, max_time_in_seconds, status, solution, assignments,
                   request, db_vars>>

CreateVariables ==
    /\ pc = "start"
    /\ ~request.async_mode
    /\ section_pattern_vars' = create_pattern_vars(input)
    /\ section_room_vars' = create_room_vars(input)
    /\ section_room_pattern_vars' = create_room_pattern_vars(input)
    /\ section_instructor_vars' = create_instructor_vars(input)
    /\ constraints' = link_constraints(input)
    /\ pc' = "variables"
    /\ UNCHANGED <<input, workload, preference_penalties, load_values,
                   objective_value, max_time_in_seconds, status, solution, assignments>>
    /\ UNCHANGED <<api_vars, db_vars>>

AddAssignmentConstraints ==
    /\ pc = "variables"
    /\ constraints' = constraints \cup
           assignment_constraints(input, section_pattern_vars,
                                  section_room_vars, section_instructor_vars)
    /\ pc' = "shape"
    /\ UNCHANGED <<input, section_pattern_vars, section_room_vars,
                   section_room_pattern_vars, section_instructor_vars,
                   workload, preference_penalties, load_values,
                   objective_value, max_time_in_seconds, status, solution, assignments>>
    /\ UNCHANGED <<api_vars, db_vars>>

AddHardConstraints ==
    /\ pc = "shape"
    /\ ~instructor_conflict_type_error(input, section_pattern_vars,
                                       section_instructor_vars)
    /\ constraints' = constraints \cup
           hard_constraints(input, section_pattern_vars, section_room_vars,
                            section_room_pattern_vars, section_instructor_vars)
    /\ pc' = "hard"
    /\ UNCHANGED <<input, section_pattern_vars, section_room_vars,
                   section_room_pattern_vars, section_instructor_vars,
                   workload, preference_penalties, load_values,
                   objective_value, max_time_in_seconds, status, solution, assignments>>
    /\ UNCHANGED <<api_vars, db_vars>>

\* an exception leaves add_instructor_conflict_constraints and solve: no
\* SolverOutput is returned
AddHardConstraintsRaises ==
    /\ pc = "shape"
    /\ \/ instructor_conflict_type_error(input, section_pattern_vars,
                                         section_instructor_vars)
       \/ instructor_conflict_bool_evaluated(input, section_pattern_vars,
                                             section_instructor_vars)
    /\ pc' = "raised"
    /\ UNCHANGED <<input, section_pattern_vars, section_room_vars,
                   section_room_pattern_vars, section_instructor_vars,
                   constraints, workload, preference_penalties, load_values,
                   objective_value, max_time_in_seconds, status, solution, assignments>>
    /\ UNCHANGED <<api_vars, db_vars>>

\* _add_soft_constraints
AddSoftConstraints ==
    /\ pc = "hard"
    /\ preference_penalties' =
           add_instructor_preference_penalties(input, section_pattern_vars,
                                               section_instructor_vars)
    /\ workload' = add_instructor_workload_penalties(input, section_instructor_vars)
    /\ pc' = "soft"
    /\ UNCHANGED <<input, section_pattern_vars, section_room_vars,
                   section_room_pattern_vars, section_instructor_vars,
                   constraints, load_values, objective_value,
                   max_time_in_seconds, status, solution, assignments>>
    /\ UNCHANGED <<api_vars, db_vars>>

\* the valuations of the Boolean variables that solve the whole CpModel
ModelSolutions ==
    {ones \in Solutions(section_pattern_vars, section_room_vars,
                        section_room_pattern_vars, section_instructor_vars,
                        constraints) :
        \A w \in workload : WorkloadFeasible(w, ones)}

\* the values of all load variables that go with a valuation.  They are
\* followed one by one for the inputs of WorkloadInputs, whose load variables
\* have small domains; for the other inputs they are taken at their least.
LoadChoices(ones) ==
    LET ids == {w.instructor_id : w \in workload}
        of(i) == CHOOSE w \in workload : w.instructor_id = i
    IN  IF input \in WorkloadInputs
        THEN {vals \in [ids -> UNION {LoadValues(w, ones) : w \in workload}] :
                 \A i \in ids : vals[i] \in LoadValues(of(i), ones)}
        ELSE {[i \in ids |-> least_load_values(of(i), ones)]}

\* every solution of the CpModel with its objective
SolverCandidates ==
    UNION {{[ones |-> ones, vals |-> vals,
             objective |-> Objective(preference_penalties, workload, ones, vals)] :
               vals \in LoadChoices(ones)} : ones \in ModelSolutions}

\* NewIntVar(0, max_possible_load) with a negative sum of loads has an empty
\* domain: the backend rejects the model
model_invalid == \E w \in workload : w.total_load_ub < 0

\* status_map without the entry of MODEL_INVALID
status_map_without_model_invalid(outcome) ==
    CASE outcome = "OPTIMAL" -> "optimal"
      [] outcome = "FEASIBLE" -> "feasible"
      [] outcome = "INFEASIBLE" -> "infeasible"
      [] outcome = "UNKNOWN" -> "timeout"
      [] OTHER -> "unknown"

\* status_map.get(status, "unknown")
status_map(outcome) ==
    CASE outcome = "OPTIMAL" -> "optimal"
      [] outcome = "FEASIBLE" -> "feasible"
      [] outcome = "INFEASIBLE" -> "infeasible"
      [] outcome = "MODEL_INVALID" -> "error"
      [] outcome = "UNKNOWN" -> "timeout"
      [] OTHER -> "unknown"

\* solver.Solve under the configured time limit: INFEASIBLE, OPTIMAL with a
\* solution of least objective, or FEASIBLE with any solution when the time
\* limit ends the search; objective_value is ObjectiveValue() for the two
\* outcomes with a solution and 0.0 otherwise
Solve ==
    /\ pc = "soft"
    /\ ~model_invalid
    /\ max_time_in_seconds' = {input.time_limit_seconds}
    /\ \E candidates \in {SolverCandidates} :
          IF candidates = {}
          THEN /\ status' = status_map("INFEASIBLE")
               /\ solution' = {}
               /\ load_values' = <<>>
               /\ objective_value' = 0
          ELSE \E least \in {CHOOSE m \in {c.objective : c \in candidates} :
                                \A c \in candidates : m <= c.objective} :
                  \E c \in candidates :
                      /\ solution' = c.ones
                      /\ load_values' = c.vals
                      /\ objective_value' = c.objective
                      /\ \/ /\ c.objective = least
                            /\ status' = status_map("OPTIMAL")
                         \/ status' = status_map("FEASIBLE")
    /\ pc' = "solved"
    /\ UNCHANGED <<input, section_pattern_vars, section_room_vars,
                   section_room_pattern_vars, section_instructor_vars,
                   constraints, workload, preference_penalties, assignments>>
    /\ UNCHANGED <<api_vars, db_vars>>

\* solver.Solve: UNKNOWN, the time limit ends the search without an answer
SolveUnknown ==
    /\ pc = "soft"
    /\ ~model_invalid
    /\ max_time_in_seconds' = {input.time_limit_seconds}
    /\ status' = status_map("UNKNOWN")
    /\ solution' = {}
    /\ load_values' = <<>>
    /\ objective_value' = 0
    /\ pc' = "solved"
    /\ UNCHANGED <<input, section_pattern_vars, section_room_vars,
                   section_room_pattern_vars, section_instructor_vars,
                   constraints, workload, preference_penalties, assignments>>
    /\ UNCHANGED <<api_vars, db_vars>>

\* solver.Solve: MODEL_INVALID, the model does not pass the backend's validation
SolveModelInvalid ==
    /\ pc = "soft"
    /\ model_invalid
    /\ max_time_in_seconds' = {input.time_limit_seconds}
    /\ status' = status_map("MODEL_INVALID")
    /\ solution' = {}
    /\ load_values' = <<>>
    /\ objective_value' = 0
    /\ pc' = "solved"
    /\ UNCHANGED <<input, section_pattern_vars, section_room_vars,
                   section_room_pattern_vars, section_instructor_vars,
                   constraints, workload, preference_penalties, assignments>>
    /\ UNCHANGED <<api_vars, db_vars>>

\* the tail of solve: assignments are extracted for OPTIMAL and FEASIBLE only
BuildOutput ==
    /\ pc = "solved"
    /\ assignments' =
           IF status \in {"optimal", "feasible"}
           THEN extract_solution(input, section_pattern_vars, section_room_vars,
                                 section_instructor_vars, solution)
           ELSE <<>>
    /\ pc' = "done"
    /\ UNCHANGED <<input, section_pattern_vars, section_room_vars,
                   section_room_pattern_vars, section_instructor_vars,
                   constraints, workload, preference_penalties, load_values,
                   objective_value, max_time_in_seconds, status, solution>>
    /\ UNCHANGED <<api_vars, db_vars>>

\* solve_schedule, synchronous branch: the SolveResponse built from the output
SolveScheduleReturns ==
    /\ pc = "done"
    /\ response' = [status_code |-> HTTP_200_OK,
                    solver_run_id |-> solver_run_id,
                    status |-> status,
                    output |-> assignments]
    /\ pc' = "answered"
    /\ UNCHANGED <<input, section_pattern_vars, section_room_vars,
                   section_room_pattern_vars, section_instructor_vars,
                   constraints, workload, preference_penalties, load_values,
                   objective_value, max_time_in_seconds, status, solution, assignments,
                   request, db_vars>>

\* solve_schedule, "except Exception": an exception of solve becomes HTTP 500
SolveScheduleError ==
    /\ pc = "raised"
    /\ response' = [status_code |-> HTTP_500_INTERNAL_SERVER_ERROR]
    /\ pc' = "answered"
    /\ UNCHANGED <<input, section_pattern_vars, section_room_vars,
                   section_room_pattern_vars, section_instructor_vars,
                   constraints, workload, preference_penalties, load_values,
                   objective_value, max_time_in_seconds, status, solution, assignments,
                   request, db_vars>>

Next ==
    \/ SolveScheduleAsync
    \/ SolveScheduleReturns
    \/ SolveScheduleError
    \/ CreateVariables
    \/ AddAssignmentConstraints
    \/ AddHardConstraints
    \/ AddHardConstraintsRaises
    \/ AddSoftConstraints
    \/ Solve
    \/ SolveUnknown
    \/ SolveModelInvalid
    \/ BuildOutput

Spec == Init /\ [][Next]_vars


(***************************************************************************)
(* Vocabulary of the properties                                            *)
(***************************************************************************)
\* solve has returned a SolverOutput with status optimal or feasible
Successful == pc = "done" /\ status \in {"optimal", "feasible"}

Minutes(t) == t.hour * 60 + t.minute

\* two patterns share a day with intersecting time intervals
SharesTime(p, q) ==
    \E i \in DOMAIN p.times, j \in DOMAIN q.times :
        /\ p.times[i].day_of_week = q.times[j].day_of_week
        /\ Minutes(p.times[i].start_time) < Minutes(q.times[j].end_time)
        /\ Minutes(q.times[j].start_time) < Minutes(p.times[i].end_time)

\* the pattern reported for section k, a record of the input
ChosenPattern(k) == pattern_by_id(input, assignments[k].meeting_pattern_id)
ChosenRoom(k) == room_by_id(input, assignments[k].room_id)

\* instructor i is attached to section k: pre-assigned, or chosen by a variable
Attached(i, k) ==
    \/ i \in Range(input.sections[k].assigned_instructor_ids)
    \/ /\ <<input.sections[k].id, i>> \in DOMAIN section_instructor_vars
       /\ SI(input.sections[k].id, i) \in solution

SectionPairs == {pair \in (DOMAIN input.sections) \X (DOMAIN input.sections) :
                    pair[1] < pair[2]}

(***************************************************************************)
(* C1: after a successful solve no instructor, pre-assigned or chosen, is  *)
(* attached to two distinct sections whose chosen meeting patterns share   *)
(* time; two sections on the same pattern share time.                      *)
(***************************************************************************)
C1_NoInstructorConflict ==
    Successful =>
        \A pair \in SectionPairs, i \in all_instructor_ids(input) :
            (/\ Attached(i, pair[1])
             /\ Attached(i, pair[2])
             /\ assignments[pair[1]].meeting_pattern_id # None
             /\ assignments[pair[2]].meeting_pattern_id # None)
                => ~SharesTime(ChosenPattern(pair[1]), ChosenPattern(pair[2]))

(***************************************************************************)
(* C2: after a successful solve all assigned sections of one cross-list    *)
(* group have the same room and the same meeting pattern, whatever the     *)
(* allowed patterns and rooms of the members.                              *)
(***************************************************************************)
C2_CrossListShares ==
    Successful =>
        \A pair \in SectionPairs :
            (/\ input.sections[pair[1]].cross_list_group_id # None
             /\ input.sections[pair[1]].cross_list_group_id
                    = input.sections[pair[2]].cross_list_group_id
             /\ assignments[pair[1]].is_assigned
             /\ assignments[pair[2]].is_assigned)
                => /\ assignments[pair[1]].room_id = assignments[pair[2]].room_id
                   /\ assignments[pair[1]].meeting_pattern_id
                          = assignments[pair[2]].meeting_pattern_id


\* the assignments solve can return for an input, had it been given alone
SolveAssignments(inp) ==
    LET spv == create_pattern_vars(inp)
        srv == create_room_vars(inp)
        srpv == create_room_pattern_vars(inp)
        siv == create_instructor_vars(inp)
        cons == link_constraints(inp)
                    \cup assignment_constraints(inp, spv, srv, siv)
                    \cup hard_constraints(inp, spv, srv, srpv, siv)
        sols == {ones \in Solutions(spv, srv, srpv, siv, cons) :
                    \A w \in add_instructor_workload_penalties(inp, siv) :
                        WorkloadFeasible(w, ones)}
    IN  {extract_solution(inp, spv, srv, siv, ones) : ones \in sols}

\* section k, scheduled as the only section of the input, can be assigned
IndividuallySchedulable(k) ==
    \E out \in SolveAssignments([input EXCEPT !.sections = <<input.sections[k]>>]) :
        out[1].is_assigned

\* sections pair[1] and pair[2] make up a cross-list group and have the same
\* candidate rooms and patterns
CrossListedAlike(pair) ==
    /\ input.sections[pair[1]].cross_list_group_id # None
    /\ input.sections[pair[1]].cross_list_group_id
           = input.sections[pair[2]].cross_list_group_id
    /\ input.sections[pair[1]].allowed_meeting_pattern_ids
           = input.sections[pair[2]].allowed_meeting_pattern_ids
    /\ input.sections[pair[1]].allowed_room_ids
           = input.sections[pair[2]].allowed_room_ids

(***************************************************************************)
(* C3: when two individually schedulable sections with the same candidate  *)
(* rooms and patterns are joined into one cross-list group, the solve that *)
(* reaches a verdict returns optimal or feasible with both sections        *)
(* assigned to one shared room and one shared pattern.                     *)
(***************************************************************************)
C3_CrossListFeasible ==
    (pc = "done" /\ status # "timeout") =>
        \A pair \in SectionPairs :
            (/\ CrossListedAlike(pair)
             /\ IndividuallySchedulable(pair[1])
             /\ IndividuallySchedulable(pair[2]))
                => /\ status \in {"optimal", "feasible"}
                   /\ assignments[pair[1]].is_assigned
                   /\ assignments[pair[2]].is_assigned
                   /\ assignments[pair[1]].room_id = assignments[pair[2]].room_id
                   /\ assignments[pair[1]].meeting_pattern_id
                          = assignments[pair[2]].meeting_pattern_id


(***************************************************************************)
(* C4: after a successful solve no two distinct assigned sections have     *)
(* the same room together with meeting patterns that are identical or      *)
(* share time.                                                             *)
(***************************************************************************)
C4_NoRoomConflict ==
    Successful =>
        \A pair \in SectionPairs :
            (/\ assignments[pair[1]].is_assigned
             /\ assignments[pair[2]].is_assigned
             /\ assignments[pair[1]].room_id = assignments[pair[2]].room_id)
                => /\ assignments[pair[1]].meeting_pattern_id
                          # assignments[pair[2]].meeting_pattern_id
                   /\ ~SharesTime(ChosenPattern(pair[1]), ChosenPattern(pair[2]))

\* two sections that could each take either of two overlapping patterns in
\* either room end up assigned, in one room or on one pattern
C4_Witness ==
    /\ Successful
    /\ \E p \in Range(input.meeting_patterns), q \in Range(input.meeting_patterns) :
          p.id # q.id /\ SharesTime(p, q)
    /\ \E pair \in SectionPairs :
          /\ assignments[pair[1]].is_assigned
          /\ assignments[pair[2]].is_assigned
          /\ \A k \in {pair[1], pair[2]} :
                /\ input.sections[k].fixed_room_id = None
                /\ input.sections[k].allowed_room_ids = {}
                /\ input.sections[k].allowed_meeting_pattern_ids = {}
          /\ \/ assignments[pair[1]].room_id = assignments[pair[2]].room_id
             \/ assignments[pair[1]].meeting_pattern_id
                    = assignments[pair[2]].meeting_pattern_id

(***************************************************************************)
(* C6: after a successful solve the room of every assigned section has a   *)
(* capacity of at least the section's expected enrollment, also when the   *)
(* room is imposed by fixed_room_id.                                       *)
(***************************************************************************)
C6_RoomCapacity ==
    Successful =>
        \A k \in DOMAIN input.sections :
            assignments[k].is_assigned
                => ChosenRoom(k).capacity >= input.sections[k].expected_enrollment

\* a section with a fixed room is assigned while some room is too small for it
C6_Witness ==
    /\ Successful
    /\ \E k \in DOMAIN input.sections :
          /\ input.sections[k].fixed_room_id # None
          /\ assignments[k].is_assigned
          /\ \E r \in Range(input.rooms) :
                r.capacity < input.sections[k].expected_enrollment

(***************************************************************************)
(* C7: after a successful solve the required room features of an assigned  *)
(* section together with those of its course are all features of the       *)
(* section's room.                                                         *)
(***************************************************************************)
C7_RoomFeatures ==
    Successful =>
        \A k \in DOMAIN input.sections :
            assignments[k].is_assigned
                => \A f \in input.sections[k].required_room_features \cup
                        UNION {c.required_room_features : c \in
                                {c \in Range(input.courses) :
                                    c.id = input.sections[k].course_id}} :
                       f \in ChosenRoom(k).features

\* a section is assigned whose course alone requires a feature
C7_Witness ==
    /\ Successful
    /\ \E k \in DOMAIN input.sections :
          /\ assignments[k].is_assigned
          /\ input.sections[k].required_room_features = {}
          /\ \E c \in Range(input.courses) :
                /\ c.id = input.sections[k].course_id
                /\ c.required_room_features # {}


(***************************************************************************)
(* C5: after a successful solve every assigned section has exactly one of  *)
(* its section_pattern variables and exactly one of its section_room       *)
(* variables equal to 1, and its meeting_pattern_id and room_id are those  *)
(* two; is_assigned holds iff both ids are non-null, and an unassigned     *)
(* section carries the reason "No feasible assignment found".              *)
(***************************************************************************)
PatternVarsAtOne(k) ==
    {key[2] : key \in {key \in DOMAIN section_pattern_vars :
        /\ key[1] = input.sections[k].id
        /\ Value(solution, SP(key[1], key[2])) = 1}}

RoomVarsAtOne(k) ==
    {key[2] : key \in {key \in DOMAIN section_room_vars :
        /\ key[1] = input.sections[k].id
        /\ Value(solution, SR(key[1], key[2])) = 1}}

C5_ExactlyOnePatternAndRoom ==
    Successful =>
        \A k \in DOMAIN input.sections :
            /\ assignments[k].is_assigned
                  => /\ PatternVarsAtOne(k) = {assignments[k].meeting_pattern_id}
                     /\ RoomVarsAtOne(k) = {assignments[k].room_id}
            /\ assignments[k].is_assigned
                  <=> (/\ assignments[k].meeting_pattern_id # None
                       /\ assignments[k].room_id # None)
            /\ ~assignments[k].is_assigned
                  => assignments[k].unassigned_reason = "No feasible assignment found"

(***************************************************************************)
(* C8: after a successful solve under a configured connector, the chosen   *)
(* pattern of every child of a link group is compatible under that         *)
(* connector with the chosen pattern of the group's parent, and the        *)
(* parent's chosen pattern has a compatible child candidate pattern.       *)
(***************************************************************************)
DaysOf(p) == {p.times[i].day_of_week : i \in DOMAIN p.times}

\* on a common day the child starts 0 to 30 minutes after the parent ends
StartsWithin30After(parent_pattern, child_pattern) ==
    \E i \in DOMAIN parent_pattern.times, j \in DOMAIN child_pattern.times :
        /\ parent_pattern.times[i].day_of_week = child_pattern.times[j].day_of_week
        /\ Minutes(child_pattern.times[j].start_time)
              - Minutes(parent_pattern.times[i].end_time) \in 0..30

Connected(connector, parent_pattern, child_pattern) ==
    CASE connector = "immediately_after" ->
            StartsWithin30After(parent_pattern, child_pattern)
      [] connector = "same_day" ->
            DaysOf(parent_pattern) \cap DaysOf(child_pattern) # {}
      [] connector = "different_day" ->
            DaysOf(parent_pattern) \cap DaysOf(child_pattern) = {}

\* the candidate patterns of section k: its allowed patterns among all patterns
CandidatePatterns(k) ==
    {p \in Range(input.meeting_patterns) :
        \/ input.sections[k].allowed_meeting_pattern_ids = {}
        \/ p.id \in input.sections[k].allowed_meeting_pattern_ids}

\* the <<parent, child>> pairs of the link groups of at least two sections
LinkedPairs ==
    UNION {{<<link_parent(input, g), child>> : child \in link_children(input, g)} :
           g \in {g \in link_group_ids(input) :
                    Cardinality(link_group(input, g)) >= 2}}

C8_LinkedCompatible ==
    (/\ Successful
     /\ input.constraint_options.link_connector_type
            \in {"immediately_after", "same_day", "different_day"}) =>
        \A pair \in LinkedPairs :
            assignments[pair[1]].meeting_pattern_id # None
                => /\ \E cp \in CandidatePatterns(pair[2]) :
                          Connected(input.constraint_options.link_connector_type,
                                    ChosenPattern(pair[1]), cp)
                   /\ assignments[pair[2]].meeting_pattern_id # None
                          => Connected(input.constraint_options.link_connector_type,
                                       ChosenPattern(pair[1]), ChosenPattern(pair[2]))

(***************************************************************************)
(* C9: under the immediately_after connector, after a successful solve     *)
(* the chosen pattern of a child of a link group is one of the child's     *)
(* candidate patterns that, on a day common with the parent's chosen       *)
(* pattern, start between 0 and 30 minutes after the parent's meeting ends.*)
(***************************************************************************)
C9_ImmediatelyAfter ==
    (Successful /\ link_connector_type(input) = "immediately_after") =>
        \A pair \in LinkedPairs :
            (/\ assignments[pair[1]].meeting_pattern_id # None
             /\ assignments[pair[2]].meeting_pattern_id # None)
                => ChosenPattern(pair[2]) \in
                       {cp \in CandidatePatterns(pair[2]) :
                           StartsWithin30After(ChosenPattern(pair[1]), cp)}

\* parent and child are assigned although the child has candidates that start
\* too late (35 minutes after), too early, or on other days
C9_Witness ==
    /\ Successful
    /\ link_connector_type(input) = "immediately_after"
    /\ \E pair \in LinkedPairs :
          /\ assignments[pair[1]].is_assigned
          /\ assignments[pair[2]].is_assigned
          /\ \E cp \in CandidatePatterns(pair[2]) :
                /\ DaysOf(cp) \cap DaysOf(ChosenPattern(pair[1])) # {}
                /\ ~StartsWithin30After(ChosenPattern(pair[1]), cp)


(***************************************************************************)
(* C10, as stated: after a successful solve a section whose                *)
(* fixed_meeting_pattern_id, fixed_room_id or fixed_date_pattern_id is set *)
(* has exactly that value as its assignment's meeting_pattern_id, room_id  *)
(* or date_pattern_id; with fixed_date_pattern_id unset the date pattern   *)
(* is the first date pattern of the input.                                 *)
(***************************************************************************)
C10_FixedFieldsReported ==
    Successful =>
        \A k \in DOMAIN input.sections :
            /\ input.sections[k].fixed_meeting_pattern_id # None
                  => assignments[k].meeting_pattern_id
                         = input.sections[k].fixed_meeting_pattern_id
            /\ input.sections[k].fixed_room_id # None
                  => assignments[k].room_id = input.sections[k].fixed_room_id
            /\ input.sections[k].fixed_date_pattern_id # None
                  => assignments[k].date_pattern_id
                         = input.sections[k].fixed_date_pattern_id
            /\ (/\ input.sections[k].fixed_date_pattern_id = None
                /\ input.date_patterns # <<>>)
                  => assignments[k].date_pattern_id = input.date_patterns[1].id

(***************************************************************************)
(* C10, amended: after a successful solve the meeting_pattern_id and the   *)
(* room_id of an assignment, whenever non-null, equal the section's        *)
(* fixed_meeting_pattern_id and fixed_room_id when these are set (they are *)
(* null when the section has no candidate pattern or room among the        *)
(* input's); date_pattern_id equals fixed_date_pattern_id when set, else   *)
(* the first date pattern of the input, and is null when there is none.    *)
(***************************************************************************)
C10_FixedFieldsWhenChosen ==
    Successful =>
        \A k \in DOMAIN input.sections :
            /\ (/\ input.sections[k].fixed_meeting_pattern_id # None
                /\ assignments[k].meeting_pattern_id # None)
                  => assignments[k].meeting_pattern_id
                         = input.sections[k].fixed_meeting_pattern_id
            /\ (/\ input.sections[k].fixed_room_id # None
                /\ assignments[k].room_id # None)
                  => assignments[k].room_id = input.sections[k].fixed_room_id
            /\ assignments[k].date_pattern_id =
                  IF input.sections[k].fixed_date_pattern_id # None
                  THEN input.sections[k].fixed_date_pattern_id
                  ELSE IF input.date_patterns # <<>>
                  THEN input.date_patterns[1].id
                  ELSE None

\* a section with a fixed pattern and a fixed room, neither the first of the
\* input, is assigned next to a section with a fixed date pattern
C10_Witness ==
    /\ Successful
    /\ \E k \in DOMAIN input.sections :
          /\ input.sections[k].fixed_meeting_pattern_id # None
          /\ input.sections[k].fixed_room_id # None
          /\ assignments[k].is_assigned
          /\ Cardinality(PatternIds(input)) > 1
          /\ assignments[k].room_id # input.rooms[1].id
    /\ input.date_patterns # <<>>
    /\ \E k \in DOMAIN input.sections :
          /\ input.sections[k].fixed_date_pattern_id # None
          /\ input.sections[k].fixed_date_pattern_id # input.date_patterns[1].id


\* section k has a candidate room among the rooms of the input, and its
\* expected enrollment exceeds the capacity of every room of the input
NoRoomFits(k) ==
    /\ allowed_rooms(input, input.sections[k]) \cap RoomIds(input) # {}
    /\ \A r \in Range(input.rooms) :
           r.capacity < input.sections[k].expected_enrollment

(***************************************************************************)
(* C11: when the expected enrollment of some section exceeds the capacity  *)
(* of every room of the input, solve (unless the time limit ends it        *)
(* without a verdict) returns a SolverOutput with status infeasible and an *)
(* empty assignment list.                                                  *)
(***************************************************************************)
C11_NoRoomFitsInfeasible ==
    (/\ pc \in {"done", "raised"}
     /\ status # "timeout"
     /\ \E k \in DOMAIN input.sections : NoRoomFits(k))
        => /\ pc = "done"
           /\ status = "infeasible"
           /\ assignments = <<>>

\* the input with no instructor pre-assigned to any section
WithoutAssignedInstructors(inp) ==
    [inp EXCEPT !.sections =
        [k \in DOMAIN inp.sections |->
            [inp.sections[k] EXCEPT !.assigned_instructor_ids = <<>>]]]

\* the sections can take candidate patterns of which no two share a day
DayDisjointChoice ==
    \E choice \in [DOMAIN input.sections -> Range(input.meeting_patterns)] :
        /\ \A k \in DOMAIN input.sections :
               choice[k].id \in allowed_patterns(input, input.sections[k])
        /\ \A pair \in SectionPairs :
               DaysOf(choice[pair[1]]) \cap DaysOf(choice[pair[2]]) = {}

\* every section is pre-assigned the one instructor i
AllPreAssigned(i) ==
    \A k \in DOMAIN input.sections :
        input.sections[k].assigned_instructor_ids = <<i>>

(***************************************************************************)
(* C12: when every section is pre-assigned the same instructor, the input  *)
(* without the pre-assignments can be solved with every section assigned,  *)
(* and the sections can take patterns that share no day, solve (unless the *)
(* time limit ends it without a verdict) returns optimal or feasible with  *)
(* every section assigned.                                                 *)
(***************************************************************************)
C12_SameInstructorFeasible ==
    (/\ pc \in {"done", "raised"}
     /\ status # "timeout"
     /\ Cardinality(DOMAIN input.sections) >= 2
     /\ \E i \in all_instructor_ids(input) : AllPreAssigned(i)
     /\ DayDisjointChoice
     /\ \E out \in SolveAssignments(WithoutAssignedInstructors(input)) :
            \A k \in DOMAIN out : out[k].is_assigned)
        => /\ Successful
           /\ \A k \in DOMAIN assignments : assignments[k].is_assigned


\* the solver has been started: solve has left its first line
SolverRan ==
    \/ pc \notin {"start", "answered"}
    \/ section_pattern_vars # <<>> \/ section_room_vars # <<>>
    \/ section_room_pattern_vars # <<>> \/ section_instructor_vars # <<>>
    \/ constraints # {} \/ workload # {} \/ status # None
    \/ solution # {} \/ assignments # <<>>

(***************************************************************************)
(* C20: POST /solve with async_mode = true never runs the solver; it is    *)
(* answered 400 when there is no callback_url (null or empty) and 501 when *)
(* there is one.  Only a request with async_mode = false is answered 200   *)
(* with solver_run_id, status and output: the status and assignments that  *)
(* solve returned (an exception of solve is answered 500).                 *)
(***************************************************************************)
C20_AsyncNeverSolves ==
    /\ request.async_mode =>
          /\ ~SolverRan
          /\ pc = "answered" =>
                response.status_code =
                    (IF request.callback_url \in {None, ""} THEN 400 ELSE 501)
    /\ (pc = "answered" /\ ~request.async_mode) =>
          \/ /\ status # None
             /\ response = [status_code |-> 200, solver_run_id |-> solver_run_id,
                            status |-> status, output |-> assignments]
          \/ /\ status = None
             /\ response = [status_code |-> 500]

\* both asynchronous answers and a synchronous one have been given
C20_Witness ==
    /\ pc = "answered"
    /\ request.async_mode
    /\ request.callback_url = "http://callback"
    /\ response.status_code = 501
    /\ input.sections # <<>>


(***************************************************************************)
(* db/repository.py: the tables and the SolverOutput to save               *)
(***************************************************************************)
\* the calls of commit_schedule_version explored
MaxCommits == 2

Versions == {"v1", "v2"}
\* the callers of save_solver_output, each on a pool connection of its own
Writers == {"w1", "w2"}
\* the versions a caller saves to: w1 to v1, w2 to the same or another one
CallVersions(w) == IF w = "w1" THEN {"v1"} ELSE Versions

\* SQL NULL: an optional column holds {} or {value}
NULL == {}
\* NOW() is the start time of the transaction of caller w
NowOf(w) == <<"now", w>>
\* a time before every call
Past == <<"now", "past">>
\* NOW() of call n of commit_schedule_version (a statement of its own)
CommitTime(n) == <<"commit", n>>

DbAssignment(section_id, pattern, room, instructor_ids) ==
    [section_id |-> section_id,
     meeting_pattern_id |-> pattern,
     date_pattern_id |-> "d1",
     room_id |-> room,
     instructor_ids |-> instructor_ids,
     is_assigned |-> pattern # None /\ room # None,
     unassigned_reason |-> IF pattern # None /\ room # None THEN None
                           ELSE "No feasible assignment found"]

SolverOutput(run, result_status, assignment_list, violations) ==
    [solver_run_id |-> run, status |-> result_status,
     assignments |-> assignment_list, violations |-> violations]

\* the section lists load_solver_input returns for a term: none, or s1 and s2
LoadedSections == {<<>>, <<"s1", "s2">>}

\* the SolverOutput solve can return for the loaded sections: nothing to
\* assign without sections; otherwise one Assignment per section (s2 with no
\* candidate pattern stays unassigned), or no Assignment at all when the
\* status is infeasible, timeout or error.  solve never fills violations.
SolveOutputs(run, sections) ==
    IF sections = <<>>
    THEN {SolverOutput(run, "optimal", <<>>, <<>>)}
    ELSE {SolverOutput(run, "optimal",
                       <<DbAssignment("s1", "p1", "r1", {"i1"}),
                         DbAssignment("s2", None, None, {})>>, <<>>),
          SolverOutput(run, "feasible",
                       <<DbAssignment("s1", "p2", "r1", {"i1"}),
                         DbAssignment("s2", "p1", "r2", {"i1", "i2"})>>, <<>>),
          SolverOutput(run, "infeasible", <<>>, <<>>),
          SolverOutput(run, "timeout", <<>>, <<>>),
          SolverOutput(run, "error", <<>>, <<>>)}

\* a SolverOutput handed to save_solver_output by another caller than the route
DirectOutputs(run) ==
    {SolverOutput(run, "feasible",
                  <<DbAssignment("s1", "p1", "r2", {"i2"})>>,
                  <<[section_id |-> "s1", description |-> "room too small"]>>)}

\* uuid4() of the solve of caller w
RunOf(w) == <<"run", w>>

\* a row of scheduling.section_assignments
SectionAssignmentRow(id, a, version, source, valid_to) ==
    [id |-> id,
     section_id |-> a.section_id,
     schedule_version_id |-> version,
     meeting_pattern_id |-> a.meeting_pattern_id,
     date_pattern_id |-> a.date_pattern_id,
     room_id |-> a.room_id,
     assignment_source |-> source,
     notes |-> a.unassigned_reason,
     valid_to |-> valid_to]

\* rows found in the table before any call: a live solver row, a live manual
\* row and an expired solver row of v1 and a live solver row of v2, an
\* expired manual row of v1
EarlierRows ==
    {SectionAssignmentRow(<<"w0", "a1">>, DbAssignment("s1", "p2", "r2", {}),
                          "v1", "solver", NULL),
     SectionAssignmentRow(<<"w0", "a2">>, DbAssignment("s2", "p1", "r1", {}),
                          "v1", "manual", NULL),
     SectionAssignmentRow(<<"w0", "a3">>, DbAssignment("s1", "p1", "r1", {}),
                          "v1", "solver", {Past}),
     SectionAssignmentRow(<<"w0", "a4">>, DbAssignment("s1", "p1", "r1", {}),
                          "v2", "solver", NULL),
     SectionAssignmentRow(<<"w0", "a5">>, DbAssignment("s2", "p2", "r2", {}),
                          "v1", "manual", {Past})}

\* a row of scheduling.schedule_versions
ScheduleVersionRow(version_status, published_at, updated_at) ==
    [status |-> version_status, published_at |-> published_at,
     updated_at |-> updated_at]

\* the four tables save_solver_output writes, as committed
Tables ==
    [solver_runs |-> solver_runs,
     section_assignments |-> section_assignments,
     instructor_assignments |-> instructor_assignments,
     constraint_violations |-> constraint_violations]

\* a caller that has not called yet
IdleTxn ==
    [pc |-> "idle", via |-> None, schedule_version_id |-> None,
     sections |-> <<>>, output |-> SolverOutput(<<"run", None>>, None, <<>>, <<>>),
     now |-> Past, targets |-> {}, expired |-> {}, inserted |-> {},
     runs |-> {}, instructors |-> {}, violations |-> {},
     before |-> [solver_runs |-> {}, section_assignments |-> {},
                 instructor_assignments |-> {}, constraint_violations |-> {}],
     began_after |-> {}, undone |-> FALSE, status_code |-> 0]

\* the statements of the transaction block, named by the statement to run next
Steps == {"solver_runs", "expire", "expire_locks", "insert", "instructors",
          "violations", "commit"}

\* caller c is inside "async with conn.transaction()"
Open(c) == c \in DOMAIN txn /\ txn[c].pc \in Steps

(***************************************************************************)
(* PostgreSQL at READ COMMITTED                                            *)
(***************************************************************************)
\* the changes of a transaction applied to the tables
apply_transaction(db, t) ==
    [solver_runs |->
        {r \in db.solver_runs : \A n \in t.runs : n.id # r.id} \cup t.runs,
     section_assignments |->
        {IF r.id \in t.expired THEN [r EXCEPT !.valid_to = {t.now}] ELSE r :
            r \in db.section_assignments} \cup t.inserted,
     instructor_assignments |-> db.instructor_assignments \cup t.instructors,
     constraint_violations |-> db.constraint_violations \cup t.violations]

\* a transaction block that commits whatever happened inside it
transaction_exit_always_commits(db, t, raised) == apply_transaction(db, t)

\* the tables after "async with conn.transaction()" is left: COMMIT, or
\* ROLLBACK when an exception leaves the block
transaction_exit(db, t, raised) ==
    IF raised THEN db ELSE apply_transaction(db, t)

\* a connection that sees the uncommitted changes of every open transaction
visible_assignments_dirty(c) ==
    LET expired == UNION {txn[w].expired : w \in {w \in Writers : Open(w)}}
        inserted == UNION {txn[w].inserted : w \in {w \in Writers : Open(w)}}
    IN  {IF r.id \in expired THEN [r EXCEPT !.valid_to = {Past}] ELSE r :
            r \in section_assignments} \cup inserted

\* the section_assignments rows a statement on the connection of c sees: the
\* committed rows, with the changes of c's own open transaction
visible_assignments(c) ==
    IF Open(c)
    THEN apply_transaction(Tables, txn[c]).section_assignments
    ELSE section_assignments

(***************************************************************************)
(* save_solver_output                                                      *)
(***************************************************************************)
\* the WHERE clause that fits no row
expiry_matches_nothing(row, schedule_version_id) == FALSE

\* the WHERE clause without the test of assignment_source
expiry_matches_any_source(row, schedule_version_id) ==
    /\ row.schedule_version_id = schedule_version_id
    /\ row.valid_to = NULL

\* the WHERE clause of step 2
expiry_matches(row, schedule_version_id) ==
    /\ row.schedule_version_id = schedule_version_id
    /\ row.valid_to = NULL
    /\ row.assignment_source = "solver"

\* the WHERE clause of the SELECT of step 4
live_solver_row(row, schedule_version_id) ==
    /\ row.schedule_version_id = schedule_version_id
    /\ row.valid_to = NULL
    /\ row.assignment_source = "solver"

\* assigned = [a for a in output.assignments if a.is_assigned]
assigned(output) ==
    {output.assignments[k] : k \in {k \in DOMAIN output.assignments :
                                        output.assignments[k].is_assigned}}

\* the rows step 3 inserts; the database gives each row an id of its own
new_rows(w, schedule_version_id, output) ==
    {SectionAssignmentRow(<<w, a.section_id>>, a, schedule_version_id,
                          "solver", NULL) : a \in assigned(output)}

\* the row step 1 inserts, or the existing row of that id as step 1 updates it
solver_run_row(w, schedule_version_id, output) ==
    LET n == Cardinality(assigned(output))
        existing == {r \in solver_runs : r.id = output.solver_run_id}
        fresh == [id |-> output.solver_run_id,
                  schedule_version_id |-> schedule_version_id,
                  status |-> output.status,
                  started_at |-> NowOf(w),
                  completed_at |-> NowOf(w),
                  input_sections |-> Len(output.assignments),
                  assigned_sections |-> n,
                  unassigned_sections |-> Len(output.assignments) - n]
    IN  IF existing = {}
        THEN fresh
        ELSE [fresh EXCEPT
                !.schedule_version_id =
                    (CHOOSE r \in existing : TRUE).schedule_version_id,
                !.started_at = (CHOOSE r \in existing : TRUE).started_at]

\* the call is made: a pool connection is acquired and BEGIN is sent
Enter(w, via, schedule_version_id, sections, output) ==
    /\ txn[w].pc = "idle"
    /\ publish_log = <<>>
    /\ txn' = [txn EXCEPT ![w] =
                [IdleTxn EXCEPT
                    !.pc = "solver_runs", !.via = via,
                    !.schedule_version_id = schedule_version_id,
                    !.sections = sections, !.output = output,
                    !.now = NowOf(w), !.before = Tables,
                    !.began_after = Range(commit_order)]]
    /\ UNCHANGED <<schedule_versions, solver_runs, section_assignments,
                   instructor_assignments, constraint_violations,
                   initial_assignments, commit_order, publish_log,
                   solver_vars, api_vars,
                       pool_vars>>

\* POST /solve-from-db up to the call of save_solver_output: the input is
\* loaded, solved, and the output of every status is handed on
SolveFromDatabase ==
    \E w \in Writers, sections \in LoadedSections :
        \E schedule_version_id \in CallVersions(w), output \in SolveOutputs(RunOf(w), sections) :
            Enter(w, "solve_from_database", schedule_version_id, sections, output)

\* save_solver_output called with a SolverOutput of its own, or with the
\* SolverOutput another caller has passed already
SaveSolverOutput ==
    \E w \in Writers :
        \E schedule_version_id \in CallVersions(w),
           output \in DirectOutputs(RunOf(w))
                \cup {txn[o].output : o \in {o \in Writers : txn[o].pc # "idle"}} :
            Enter(w, "save_solver_output", schedule_version_id, <<>>, output)

\* step 1: INSERT ... ON CONFLICT (id) DO UPDATE waits while another open
\* transaction has written the row of that id
UpsertSolverRun ==
    \E w \in Writers :
        /\ txn[w].pc = "solver_runs"
        /\ \A o \in Writers \ {w} :
               Open(o) => \A r \in txn[o].runs : r.id # txn[w].output.solver_run_id
        /\ txn' = [txn EXCEPT
                    ![w].runs = {solver_run_row(w, txn[w].schedule_version_id,
                                                txn[w].output)},
                    ![w].pc = "expire"]
        /\ UNCHANGED <<schedule_versions, solver_runs, section_assignments,
                       instructor_assignments, constraint_violations,
                       initial_assignments, commit_order, publish_log,
                       solver_vars, api_vars,
                       pool_vars>>

\* step 2 run only for an output with an assigned section
expiry_targets_when_assigned(w) ==
    IF assigned(txn[w].output) = {}
    THEN {}
    ELSE {r.id : r \in {r \in visible_assignments(w) :
                           expiry_matches(r, txn[w].schedule_version_id)}}

\* the rows the UPDATE of step 2 visits: it runs for every output
expiry_targets(w) ==
    {r.id : r \in {r \in visible_assignments(w) :
                     expiry_matches(r, txn[w].schedule_version_id)}}

\* step 2, the UPDATE starts: its snapshot fixes the rows it will visit
ExpireSnapshot ==
    \E w \in Writers :
        /\ txn[w].pc = "expire"
        /\ txn' = [txn EXCEPT
                    ![w].targets = expiry_targets(w),
                    ![w].pc = "expire_locks"]
        /\ UNCHANGED <<schedule_versions, solver_runs, section_assignments,
                       instructor_assignments, constraint_violations,
                       initial_assignments, commit_order, publish_log,
                       solver_vars, api_vars,
                       pool_vars>>

\* step 2, the UPDATE ends: it waits for the row locks of other open
\* transactions, then updates the rows that still fit the WHERE clause
ExpireUpdate ==
    \E w \in Writers :
        /\ txn[w].pc = "expire_locks"
        /\ \A o \in Writers \ {w} :
               Open(o) => txn[o].expired \cap txn[w].targets = {}
        /\ txn' = [txn EXCEPT
                    ![w].expired =
                        {r.id : r \in {r \in visible_assignments(w) :
                            /\ r.id \in txn[w].targets
                            /\ expiry_matches(r, txn[w].schedule_version_id)}},
                    ![w].pc = "insert"]
        /\ UNCHANGED <<schedule_versions, solver_runs, section_assignments,
                       instructor_assignments, constraint_violations,
                       initial_assignments, commit_order, publish_log,
                       solver_vars, api_vars,
                       pool_vars>>

\* step 3: one row per assigned section (no statement when none is assigned)
InsertSectionAssignments ==
    \E w \in Writers :
        /\ txn[w].pc = "insert"
        /\ txn' = [txn EXCEPT
                    ![w].inserted = new_rows(w, txn[w].schedule_version_id,
                                             txn[w].output),
                    ![w].pc = "instructors"]
        /\ UNCHANGED <<schedule_versions, solver_runs, section_assignments,
                       instructor_assignments, constraint_violations,
                       initial_assignments, commit_order, publish_log,
                       solver_vars, api_vars,
                       pool_vars>>

\* step 4: the live solver rows of the version are read back, one id is kept
\* per section (the dict keeps the last row fetched), and one row per
\* instructor of an assigned section is inserted
InsertInstructorAssignments ==
    \E w \in Writers :
        /\ txn[w].pc = "instructors"
        /\ LET rows == {r \in visible_assignments(w) :
                            live_solver_row(r, txn[w].schedule_version_id)}
               sections == {a.section_id : a \in assigned(txn[w].output)}
               ids(s) == {r.id : r \in {r \in rows : r.section_id = s}}
           IN  \E section_assignment_map \in [sections -> {r.id : r \in rows}] :
                  /\ \A s \in sections : section_assignment_map[s] \in ids(s)
                  /\ txn' = [txn EXCEPT
                        ![w].instructors =
                            {[section_assignment_id |-> section_assignment_map[a.section_id],
                              instructor_id |-> i, role |-> "primary"] :
                                <<a, i>> \in {ai \in assigned(txn[w].output)
                                                \X {"i1", "i2"} :
                                                ai[2] \in ai[1].instructor_ids}},
                        ![w].pc = "violations"]
        /\ UNCHANGED <<schedule_versions, solver_runs, section_assignments,
                       instructor_assignments, constraint_violations,
                       initial_assignments, commit_order, publish_log,
                       solver_vars, api_vars,
                       pool_vars>>

\* step 5: one row per entry of output.violations
InsertConstraintViolations ==
    \E w \in Writers :
        /\ txn[w].pc = "violations"
        /\ txn' = [txn EXCEPT
                    ![w].violations =
                        {[id |-> <<w, k>>,
                          solver_run_id |-> txn[w].output.solver_run_id,
                          section_id |-> txn[w].output.violations[k].section_id,
                          description |-> txn[w].output.violations[k].description] :
                            k \in DOMAIN txn[w].output.violations},
                    ![w].pc = "commit"]
        /\ UNCHANGED <<schedule_versions, solver_runs, section_assignments,
                       instructor_assignments, constraint_violations,
                       initial_assignments, commit_order, publish_log,
                       solver_vars, api_vars,
                       pool_vars>>

\* the transaction block is left (COMMIT or ROLLBACK) and the tables are
\* what transaction_exit makes of them
Leave(w, raised) ==
    LET db == transaction_exit(Tables, txn[w], raised)
    IN  /\ solver_runs' = db.solver_runs
        /\ section_assignments' = db.section_assignments
        /\ instructor_assignments' = db.instructor_assignments
        /\ constraint_violations' = db.constraint_violations

\* the block ends normally: COMMIT; solve_from_database answers 200
Commit ==
    \E w \in Writers :
        /\ txn[w].pc = "commit"
        /\ Leave(w, FALSE)
        /\ txn' = [txn EXCEPT
                    ![w].pc = "done",
                    ![w].status_code =
                        IF txn[w].via = "solve_from_database"
                        THEN HTTP_200_OK ELSE 0]
        /\ commit_order' = Append(commit_order, w)
        /\ UNCHANGED <<schedule_versions, initial_assignments,
                       publish_log, solver_vars, api_vars,
                       pool_vars>>

\* a statement of the block (or COMMIT) raises: ROLLBACK, the exception
\* leaves save_solver_output, and solve_from_database turns it into HTTP 500;
\* undone remembers whether rows had been inserted by then
Raise ==
    \E w \in Writers :
        /\ Open(w)
        /\ Leave(w, TRUE)
        /\ txn' = [txn EXCEPT
                    ![w].pc = "failed",
                    ![w].expired = {}, ![w].inserted = {}, ![w].runs = {},
                    ![w].instructors = {}, ![w].violations = {},
                    ![w].targets = {},
                    ![w].undone = txn[w].inserted # {},
                    ![w].status_code =
                        IF txn[w].via = "solve_from_database"
                        THEN HTTP_500_INTERNAL_SERVER_ERROR ELSE 0]
        /\ UNCHANGED <<schedule_versions, initial_assignments,
                       commit_order, publish_log, solver_vars, api_vars,
                       pool_vars>>

(***************************************************************************)
(* commit_schedule_version                                                 *)
(***************************************************************************)
\* the WHERE clause without "status = 'draft'"
publish_matches_any_status(row) == TRUE

\* "AND status = 'draft'" of the UPDATE
publish_matches(row) == row.status = "draft"

\* the UPDATE of one schedule_versions row (no row for an unknown id), then
\* the count of the live assignments of the version.  The function reads
\* committed rows and writes a table save_solver_output never touches, so
\* its calls are explored after the saves: it is called to approve a saved
\* schedule, when no save is under way or has failed.
CommitScheduleVersion ==
    \E schedule_version_id \in Versions \cup {"v3"} :
        /\ Len(publish_log) < MaxCommits
        /\ \A w \in Writers : txn[w].pc \in {"idle", "done"}
        /\ LET at == CommitTime(Len(publish_log) + 1)
               updated ==
                   [v \in DOMAIN schedule_versions |->
                       IF v = schedule_version_id
                              /\ publish_matches(schedule_versions[v])
                       THEN ScheduleVersionRow("published", {at}, {at})
                       ELSE schedule_versions[v]]
           IN  /\ schedule_versions' = updated
               /\ publish_log' = Append(publish_log,
                      [schedule_version_id |-> schedule_version_id,
                       before |-> schedule_versions,
                       after |-> updated,
                       at |-> at,
                       count |-> Cardinality(
                           {r \in visible_assignments("publisher") :
                               /\ r.schedule_version_id = schedule_version_id
                               /\ r.valid_to = NULL})])
        /\ UNCHANGED <<solver_runs, section_assignments, instructor_assignments,
                       constraint_violations, txn,
                       initial_assignments, commit_order, solver_vars, api_vars,
                       pool_vars>>

(***************************************************************************)
(* The persistence specification                                           *)
(***************************************************************************)
\* no POST /solve is in progress
SolverAtRest ==
    /\ input = EmptyInput
    /\ pc = "answered"
    /\ section_pattern_vars = <<>>
    /\ section_room_vars = <<>>
    /\ section_room_pattern_vars = <<>>
    /\ section_instructor_vars = <<>>
    /\ constraints = {}
    /\ workload = {}
    /\ preference_penalties = {}
    /\ load_values = <<>>
    /\ objective_value = 0
    /\ max_time_in_seconds = {}
    /\ status = None
    /\ solution = {}
    /\ assignments = <<>>
    /\ request = [async_mode |-> FALSE, callback_url |-> None]
    /\ response = <<>>

DbInit ==
    /\ SolverAtRest
    /\ PoolStarted
    /\ schedule_versions \in
          {[v \in Versions |-> IF v = "v1" THEN row
                               ELSE ScheduleVersionRow("draft", NULL, {Past})] :
              row \in {ScheduleVersionRow("draft", NULL, {Past}),
                       ScheduleVersionRow("published", {CommitTime(0)},
                                          {CommitTime(0)}),
                       ScheduleVersionRow("archived", {CommitTime(0)}, {Past})}}
    /\ solver_runs = {}
    /\ section_assignments \in
          IF schedule_versions["v1"].status = "draft"
          THEN {{}, EarlierRows} ELSE {EarlierRows}
    /\ initial_assignments = section_assignments
    /\ instructor_assignments = {}
    /\ constraint_violations = {}
    /\ txn = [w \in Writers |-> IdleTxn]
    /\ commit_order = <<>>
    /\ publish_log = <<>>

DbNext ==
    \/ SolveFromDatabase
    \/ SaveSolverOutput
    \/ UpsertSolverRun
    \/ ExpireSnapshot
    \/ ExpireUpdate
    \/ InsertSectionAssignments
    \/ InsertInstructorAssignments
    \/ InsertConstraintViolations
    \/ Commit
    \/ Raise
    \/ CommitScheduleVersion

DbSpec == DbInit /\ [][DbNext]_vars


(***************************************************************************)
(* Vocabulary of the persistence properties                                *)
(***************************************************************************)
\* the live solver-sourced rows of a version among rows
LiveSolverRows(rows, version) ==
    {r \in rows : /\ r.schedule_version_id = version
                  /\ r.valid_to = {}
                  /\ r.assignment_source = "solver"}

\* a row without its id
Content(r) == [f \in (DOMAIN r) \ {"id"} |-> r[f]]

\* what a query of another connection for the live solver rows returns now
ReaderView(version) == LiveSolverRows(visible_assignments("reader"), version)

\* no other caller has called yet
Alone(w) == \A o \in Writers \ {w} : txn[o].pc = "idle"

\* the transaction of w has executed no INSERT and no UPDATE
NothingWritten(w) ==
    /\ txn[w].runs = {}
    /\ txn[w].expired = {}
    /\ txn[w].inserted = {}
    /\ txn[w].instructors = {}
    /\ txn[w].violations = {}

(***************************************************************************)
(* C13: a POST /solve-from-db whose loaded input has no sections is solved *)
(* with status optimal, feasible or infeasible and an empty assignment     *)
(* list, and its load/solve/save path writes nothing: its transaction      *)
(* executes no INSERT or UPDATE and, once it has returned with no other    *)
(* save around, the four tables are as they were before the request.       *)
(***************************************************************************)
C13_EmptyInputNoWrites ==
    \A w \in Writers :
        (txn[w].via = "solve_from_database" /\ txn[w].sections = <<>>)
            => /\ txn[w].output.status \in {"optimal", "feasible", "infeasible"}
               /\ txn[w].output.assignments = <<>>
               /\ NothingWritten(w)
               /\ (txn[w].pc = "done" /\ Alone(w)) => Tables = txn[w].before

(***************************************************************************)
(* C14: when save_solver_output is called a second time, after the first   *)
(* call has returned, with the same SolverOutput for the same version, the *)
(* live solver rows of the version are those of after the first call up to *)
(* the row ids: every row of the first call is expired and each assigned   *)
(* section has exactly one live solver row.                                *)
(***************************************************************************)
C14_ResaveSameLiveSet ==
    \A a \in Writers, b \in Writers :
        (/\ a # b
         /\ txn[a].pc = "done" /\ txn[b].pc = "done"
         /\ a \in txn[b].began_after
         /\ txn[a].output = txn[b].output
         /\ txn[a].schedule_version_id = txn[b].schedule_version_id)
            => LET version == txn[b].schedule_version_id
                   first == LiveSolverRows(txn[b].before.section_assignments,
                                           version)
                   live == LiveSolverRows(section_assignments, version)
               IN  /\ {Content(r) : r \in live} = {Content(r) : r \in first}
                   /\ \A r \in first :
                          /\ r \notin section_assignments
                          /\ \E q \in section_assignments :
                                 q.id = r.id /\ q.valid_to # {}
                   /\ \A x \in assigned(txn[b].output) :
                          Cardinality({r \in live : r.section_id = x.section_id}) = 1
                   /\ \A r \in live :
                          \E x \in assigned(txn[b].output) :
                              x.section_id = r.section_id

\* the output with two assigned sections has been saved twice in a row over
\* the rows found in the table
C14_Witness ==
    /\ commit_order = <<"w1", "w2">>
    /\ "w1" \in txn["w2"].began_after
    /\ txn["w1"].output = txn["w2"].output
    /\ txn["w1"].schedule_version_id = txn["w2"].schedule_version_id
    /\ Cardinality(assigned(txn["w2"].output)) = 2
    /\ initial_assignments # {}

(***************************************************************************)
(* C15: commit_schedule_version turns a draft version into a published one *)
(* and stamps published_at with the time of the call; on a version that is *)
(* published already it changes nothing (status, published_at and          *)
(* updated_at stay), and a repeated call leaves the version as the call    *)
(* before it did.                                                          *)
(***************************************************************************)
C15_PublishIdempotent ==
    \A k \in DOMAIN publish_log :
        LET call == publish_log[k]
            version == call.schedule_version_id
        IN  version \in DOMAIN call.before =>
              /\ call.before[version].status = "draft" =>
                    /\ call.after[version].status = "published"
                    /\ call.after[version].published_at = {call.at}
              /\ call.before[version].status = "published" =>
                    call.after[version] = call.before[version]
              /\ \A j \in 1..(k - 1) :
                    publish_log[j].schedule_version_id = version =>
                        call.after[version] = publish_log[j].after[version]

\* a draft version has been published, and then published again
C15_Witness ==
    /\ Len(publish_log) = 2
    /\ publish_log[1].schedule_version_id = "v1"
    /\ publish_log[2].schedule_version_id = "v1"
    /\ publish_log[1].before["v1"].status = "draft"
    /\ schedule_versions["v1"].status = "published"

(***************************************************************************)
(* C16: when a statement of save_solver_output fails, the exception leaves *)
(* the function (POST /solve-from-db answers 500) and nothing the call did *)
(* is in the tables: no row it inserted, no row it expired, no solver_runs *)
(* row it wrote, and with no other successful save the four tables equal   *)
(* the tables before the call.                                             *)
(***************************************************************************)
C16_FailureRollsBack ==
    \A w \in Writers :
        txn[w].pc = "failed" =>
            /\ txn[w].via = "solve_from_database" => txn[w].status_code = 500
            /\ \A r \in section_assignments :
                   r.id[1] # w /\ r.valid_to # {NowOf(w)}
            /\ \A r \in solver_runs : r.completed_at # NowOf(w)
            /\ \A r \in constraint_violations : r.id[1] # w
            /\ (\A o \in Writers \ {w} : txn[o].pc \in {"idle", "failed"})
                   => Tables = txn[w].before

\* a POST /solve-from-db has failed after it had expired the live solver row
\* of its version and inserted its own rows
C16_Witness ==
    \E w \in Writers :
        /\ txn[w].pc = "failed"
        /\ txn[w].undone
        /\ txn[w].via = "solve_from_database"
        /\ LiveSolverRows(txn[w].before.section_assignments,
                          txn[w].schedule_version_id) # {}
        /\ Alone(w)

(***************************************************************************)
(* C17: at every moment of a save_solver_output call (no other save        *)
(* around) a query of another connection for the live solver rows of the   *)
(* version returns either the complete set of before the call or the       *)
(* complete set of rows the call inserts.                                  *)
(***************************************************************************)
C17_ReaderSeesOldOrNew ==
    \A w \in Writers :
        (txn[w].pc # "idle" /\ Alone(w)) =>
            LET version == txn[w].schedule_version_id
            IN  \/ ReaderView(version) =
                       LiveSolverRows(txn[w].before.section_assignments, version)
                \/ ReaderView(version) =
                       new_rows(w, version, txn[w].output)

\* a transaction has expired the old rows and inserted the new ones, but has
\* not committed
C17_Witness ==
    \E w \in Writers :
        /\ Open(w)
        /\ Alone(w)
        /\ txn[w].expired # {}
        /\ txn[w].inserted # {}
        /\ ReaderView(txn[w].schedule_version_id) # {}

(***************************************************************************)
(* C18: when two save_solver_output transactions for one version have both *)
(* committed, in whatever interleaving, the live solver rows of the        *)
(* version are exactly the rows of the transaction that committed last,    *)
(* and no section has two live solver rows.                                *)
(***************************************************************************)
C18_LastCommitWins ==
    (/\ Len(commit_order) = 2
     /\ txn[commit_order[1]].schedule_version_id
            = txn[commit_order[2]].schedule_version_id)
        => LET last == commit_order[2]
               version == txn[last].schedule_version_id
               live == LiveSolverRows(section_assignments, version)
           IN  /\ live = new_rows(last, version, txn[last].output)
               /\ \A r \in live, q \in live :
                      r.section_id = q.section_id => r = q

(***************************************************************************)
(* C19: save_solver_output expires only rows that are live, of the given   *)
(* version and of source solver: a row of before the calls that is         *)
(* expired, manual or of a version no committed call was for is still in   *)
(* the table as it was, and every row a call expired is a solver row of    *)
(* the version of that call that was live.                                 *)
(***************************************************************************)
C19_ExpiryFrame ==
    /\ \A r \in initial_assignments :
           (\/ r.valid_to # {}
            \/ r.assignment_source # "solver"
            \/ \A w \in Writers :
                   txn[w].pc = "done" =>
                       txn[w].schedule_version_id # r.schedule_version_id)
               => r \in section_assignments
    /\ \A r \in section_assignments, w \in Writers :
           r.valid_to = {NowOf(w)} =>
               /\ txn[w].pc = "done"
               /\ r.assignment_source = "solver"
               /\ r.schedule_version_id = txn[w].schedule_version_id
               /\ \/ [r EXCEPT !.valid_to = {}] \in initial_assignments
                  \/ r.id[1] \in Writers \ {w}

\* a save for v1 has committed over the rows found in the table: the live
\* solver row of v1 is expired, the other four rows are as they were
C19_Witness ==
    /\ initial_assignments = EarlierRows
    /\ \E w \in Writers :
           /\ txn[w].pc = "done"
           /\ txn[w].schedule_version_id = "v1"
           /\ \E r \in section_assignments :
                  r.id = <<"w0", "a1">> /\ r.valid_to = {NowOf(w)}
    /\ \A w \in Writers : txn[w].pc = "done" => txn[w].schedule_version_id = "v1"
    /\ Cardinality(initial_assignments \cap section_assignments) = 4


(***************************************************************************)
(* POST /validate (api/routes.py: validate_input)                          *)
(***************************************************************************)
\* enrollments against one or two rooms or none, allowed rooms unset, set to a
\* room of the input or set to an unknown room, with and without patterns
ValidateInputs ==
    LET variants == [expected_enrollment : 1..MaxEnrollment,
                     allowed_room_ids : {{}, {"r2"}, {"rX"}}]
    IN  {[BaseInput EXCEPT !.sections = ss, !.rooms = rs, !.meeting_patterns = mp] :
            ss \in SectionLists(variants),
            rs \in {<<R1, R2>>, <<R2>>, <<>>},
            mp \in {<<P1, P2>>, <<>>}}
        \cup {EmptyInput}

\* valid_rooms that looks at every room of the input, allowed or not
valid_rooms_of_any_room(inp, section) ==
    {k \in DOMAIN inp.rooms : inp.rooms[k].capacity >= section.expected_enrollment}

\* the rooms (by position) that are allowed for the section and large enough
valid_rooms(inp, section) ==
    LET allowed_room_set ==
            IF section.allowed_room_ids # {}
            THEN section.allowed_room_ids
            ELSE {inp.rooms[k].id : k \in DOMAIN inp.rooms}
    IN  {k \in DOMAIN inp.rooms :
            /\ inp.rooms[k].id \in allowed_room_set
            /\ inp.rooms[k].capacity >= section.expected_enrollment}

\* the issues one iteration of the loop over the sections appends
section_issues(inp, section) ==
    LET allowed_pattern_set ==
            IF section.allowed_meeting_pattern_ids # {}
            THEN section.allowed_meeting_pattern_ids
            ELSE {inp.meeting_patterns[k].id : k \in DOMAIN inp.meeting_patterns}
    IN  (IF valid_rooms(inp, section) = {}
         THEN <<[type |-> "no_valid_rooms", section_id |-> section.id,
                 message |-> <<"No room with capacity >= ",
                               section.expected_enrollment>>]>>
         ELSE <<>>)
        \o (IF allowed_pattern_set = {}
            THEN <<[type |-> "no_valid_patterns", section_id |-> section.id,
                    message |-> <<"No allowed meeting patterns">>]>>
            ELSE <<>>)

RECURSIVE issues_of(_, _)
\* the issues list after the first n sections
issues_of(inp, n) ==
    IF n = 0 THEN <<>>
    ELSE issues_of(inp, n - 1) \o section_issues(inp, inp.sections[n])

\* the dictionary validate_input returns
validate_input(inp) ==
    LET issues == issues_of(inp, Len(inp.sections))
    IN  [valid |-> Len(issues) = 0,
         issues |-> issues,
         section_count |-> Len(inp.sections),
         room_count |-> Len(inp.rooms),
         pattern_count |-> Len(inp.meeting_patterns)]

\* no solver has been built
SolverNotBuilt ==
    /\ section_pattern_vars = <<>>
    /\ section_room_vars = <<>>
    /\ section_room_pattern_vars = <<>>
    /\ section_instructor_vars = <<>>
    /\ constraints = {}
    /\ workload = {}
    /\ preference_penalties = {}
    /\ load_values = <<>>
    /\ objective_value = 0
    /\ max_time_in_seconds = {}
    /\ status = None
    /\ solution = {}
    /\ assignments = <<>>

ValidateInit ==
    /\ input \in ValidateInputs
    /\ request = [async_mode |-> FALSE, callback_url |-> None]
    /\ response = <<>>
    /\ pc = "start"
    /\ SolverNotBuilt
    /\ DatabaseAtRest
    /\ PoolStarted

\* POST /validate: the handler builds no solver and touches no table
ValidateInput ==
    /\ pc = "start"
    /\ response' = [status_code |-> HTTP_200_OK, body |-> validate_input(input)]
    /\ pc' = "answered"
    /\ UNCHANGED <<input, section_pattern_vars, section_room_vars,
                   section_room_pattern_vars, section_instructor_vars,
                   constraints, workload, preference_penalties, load_values,
                   objective_value, max_time_in_seconds, status, solution, assignments,
                   request, db_vars>>

ValidateNext == ValidateInput

ValidateSpec == ValidateInit /\ [][ValidateNext]_vars

\* section k of the input has a room that may hold it: allowed (or any room
\* when allowed_room_ids is unset) and of capacity >= expected_enrollment
HasFittingRoom(k) ==
    \E r \in Range(input.rooms) :
        /\ \/ input.sections[k].allowed_room_ids = {}
           \/ r.id \in input.sections[k].allowed_room_ids
        /\ r.capacity >= input.sections[k].expected_enrollment

\* the answer of POST /validate lists an issue of the type for section k
Reported(type, k) ==
    \E j \in DOMAIN response.body.issues :
        /\ response.body.issues[j].type = type
        /\ response.body.issues[j].section_id = input.sections[k].id

HardSolutions ==
    Solutions(section_pattern_vars, section_room_vars, section_room_pattern_vars,
              section_instructor_vars, constraints)

\* C22: soft constraints only add to the objective: the full model (shape,
\* hard constraints, preference indicators and the workload variables
\* underload, overload, target deviation) has a solution exactly when the
\* model of shape and hard constraints alone has one, whatever min_load,
\* max_load and target_load are.
C22_SoftKeepFeasibility ==
    pc = "soft" => ((ModelSolutions # {}) <=> (HardSolutions # {}))


(***************************************************************************)
(* C23: the time limit handed to the solver                                *)
(***************************************************************************)
\* C23: the wall-clock limit handed to the solver (max_time_in_seconds) always
\* lies within [10, 3600] seconds, whether the input arrives through /solve,
\* through /solve-from-db with the default, or through /solve-from-db with a
\* time_limit_seconds override
C23_TimeLimitBounded ==
    \A t \in max_time_in_seconds : t >= 10 /\ t <= 3600


(***************************************************************************)
(* C24: add_instructor_conflict_constraints                                *)
(***************************************************************************)
\* A[s, i] under an assignment of the variables: the constant 1 if i is
\* pre-assigned to section k, the value of the decision variable otherwise
InstructorTerm(ones, i, k) ==
    \/ i \in Range(input.sections[k].assigned_instructor_ids)
    \/ /\ <<input.sections[k].id, i>> \in DOMAIN section_instructor_vars
       /\ SI(input.sections[k].id, i) \in ones

\* every solution of the hard constraints leaves out, for every instructor i,
\* every two distinct sections that could use i and every two distinct
\* overlapping patterns that are candidates of the two sections, the
\* combination x[s1,p1] = 1, x[s2,p2] = 1, A[s1,i], A[s2,i]
ConflictCombinationsExcluded ==
    \A ones \in HardSolutions, i \in all_instructor_ids(input),
       pair \in SectionPairs, p1_id \in PatternIds(input) :
        \A p2_id \in overlapping_patterns(input, p1_id) :
            LET s1 == input.sections[pair[1]]
                s2 == input.sections[pair[2]]
            IN  ~(/\ <<s1.id, p1_id>> \in DOMAIN section_pattern_vars
                  /\ <<s2.id, p2_id>> \in DOMAIN section_pattern_vars
                  /\ SP(s1.id, p1_id) \in ones
                  /\ SP(s2.id, p2_id) \in ones
                  /\ InstructorTerm(ones, i, pair[1])
                  /\ InstructorTerm(ones, i, pair[2]))

\* C24: add_instructor_conflict_constraints excludes every such combination
\* in the three cases candidate/candidate, pre-assigned/candidate and
\* pre-assigned/pre-assigned, and building the constraints never raises
C24_ConflictsExcludedNeverRaises ==
    /\ pc # "raised"
    /\ pc = "hard" => ConflictCombinationsExcluded


(***************************************************************************)
(* C25: the instructors of an Assignment                                   *)
(***************************************************************************)
\* the candidate instructors of section k whose variable has value 1
ChosenCandidates(k) ==
    {i \in Range(input.sections[k].preferred_instructor_ids)
            \ Range(input.sections[k].assigned_instructor_ids) :
        SI(input.sections[k].id, i) \in solution}

\* C25: for every section of a successful solve the Assignment's
\* instructor_ids are exactly the section's assigned_instructor_ids together
\* with every candidate instructor whose section_instructor variable has
\* value 1: no chosen instructor is dropped and no unchosen one is added
C25_InstructorIdsExact ==
    Successful =>
        \A k \in DOMAIN input.sections :
            Range(assignments[k].instructor_ids) =
                Range(input.sections[k].assigned_instructor_ids)
                    \cup ChosenCandidates(k)


(***************************************************************************)
(* C26: the status of the SolverOutput                                     *)
(***************************************************************************)
\* a valuation with values of the load variables respects every domain and
\* satisfies every constraint of the CpModel
SatisfiesModel(ones, vals) ==
    /\ \A k \in DOMAIN section_pattern_vars :
          Value(ones, SP(k[1], k[2])) \in section_pattern_vars[k]
    /\ \A k \in DOMAIN section_room_vars :
          Value(ones, SR(k[1], k[2])) \in section_room_vars[k]
    /\ \A k \in DOMAIN section_room_pattern_vars :
          Value(ones, SRP(k[1], k[2], k[3])) \in section_room_pattern_vars[k]
    /\ \A k \in DOMAIN section_instructor_vars :
          Value(ones, SI(k[1], k[2])) \in section_instructor_vars[k]
    /\ \A c \in constraints : Holds(c, ones)
    /\ DOMAIN vals = {w.instructor_id : w \in workload}
    /\ \A w \in workload : vals[w.instructor_id] \in LoadValues(w, ones)

\* no objective is below the sum of the rewards: a penalty variable is 0 or 1
\* and the load penalties are not negative
RewardBound ==
    SumLoads({<<t, t.penalty_value>> :
                 t \in {t \in preference_penalties : t.penalty_value < 0}})

\* the solver's outcome as the state after solver.Solve shows it: status_map
\* is one to one on the five outcomes.  error goes with a model the backend
\* rejects, optimal and feasible with a solution of the model and its
\* objective, optimal with the least objective (an objective at RewardBound
\* is least), infeasible with a model that has no solution.
OutcomeMapped ==
    /\ status \in {"optimal", "feasible", "infeasible", "error", "timeout"}
    /\ status = "error" <=> model_invalid
    /\ status \in {"optimal", "feasible"} =>
          /\ SatisfiesModel(solution, load_values)
          /\ objective_value =
                 Objective(preference_penalties, workload, solution, load_values)
    /\ (pc = "solved" /\ status = "optimal") =>
          \/ objective_value = RewardBound
          \/ \A c \in SolverCandidates : objective_value <= c.objective
    /\ (pc = "solved" /\ status = "infeasible") => SolverCandidates = {}

\* assignments are extracted for optimal and feasible only
OutputOfStatus ==
    IF status \in {"optimal", "feasible"}
    THEN pc = "done" =>
            assignments = extract_solution(input, section_pattern_vars,
                                           section_room_vars,
                                           section_instructor_vars, solution)
    ELSE assignments = <<>> /\ objective_value = 0

\* a step taken once the soft constraints are added, or once the solver has
\* answered, is the next step of solve: none of them raises
SolveGoesOn ==
    (pc = "soft" => pc' = "solved") /\ (pc = "solved" => pc' = "done")

\* C26: solve maps OPTIMAL to "optimal", FEASIBLE to "feasible", INFEASIBLE
\* to "infeasible", MODEL_INVALID to "error" and UNKNOWN to "timeout" and
\* returns a SolverOutput for each of them without raising; the assignment
\* list is extracted only for optimal and feasible and is empty for every
\* other status, for which objective_value is 0
C26_StatusMapping ==
    /\ [](pc \in {"solved", "done"} => OutcomeMapped /\ OutputOfStatus)
    /\ [][SolveGoesOn]_vars

C26_Witness ==
    /\ pc = "done"
    /\ status = "error"
    /\ assignments = <<>>
    /\ objective_value = 0


(***************************************************************************)
(* C27: the preference terms of the objective                              *)
(***************************************************************************)
\* the weight of a term by preference level
TermWeight(base, preference_level) ==
    IF preference_level = PROHIBITED THEN 100 * base
    ELSE IF preference_level = DISCOURAGED THEN 2 * base
    ELSE IF preference_level = PREFERRED THEN 0 - base
    ELSE IF preference_level = REQUIRED THEN 0 - 2 * base
    ELSE 0

\* section s, instructor i of the section (by position in input.instructors),
\* candidate pattern p of s, and preference entry n of i that matches p
PreferenceCases ==
    {c \in [s : DOMAIN input.sections, i : DOMAIN input.instructors,
            p : DOMAIN input.meeting_patterns, n : 1..3] :
        /\ input.instructors[c.i].id \in
               Range(input.sections[c.s].assigned_instructor_ids)
                   \cup Range(input.sections[c.s].preferred_instructor_ids)
        /\ <<input.sections[c.s].id, input.meeting_patterns[c.p].id>>
               \in DOMAIN section_pattern_vars
        /\ c.n \in DOMAIN input.instructors[c.i].time_preferences
        /\ pattern_matches_preference(input.meeting_patterns[c.p],
               input.instructors[c.i].time_preferences[c.n])}

CaseWeight(c) ==
    TermWeight(IF input.constraint_weights.instructor_time_preference = {}
               THEN 10
               ELSE int_of(CHOOSE h \in
                        input.constraint_weights.instructor_time_preference : TRUE),
               input.instructors[c.i].time_preferences[c.n].preference_level)

\* g = x[s,p] AND A[s,i] under a valuation
CaseHolds(c, ones) ==
    /\ SP(input.sections[c.s].id, input.meeting_patterns[c.p].id) \in ones
    /\ InstructorTerm(ones, input.instructors[c.i].id, c.s)

\* the terms of the list that belong to a case
TermsOf(c) ==
    {t \in preference_penalties :
        /\ t.section_id = input.sections[c.s].id
        /\ t.instructor_id = input.instructors[c.i].id
        /\ t.pattern_id = input.meeting_patterns[c.p].id
        /\ t.pref = c.n}

\* C27: for each section s, each instructor i in assigned_instructor_ids or
\* preferred_instructor_ids of s, each candidate pattern p of s and each
\* preference entry of i that matches p, the objective contains the term
\* weight * g with g = x[s,p] AND A[s,i] (A = 1 when i is pre-assigned),
\* where weight is +100*base for PROHIBITED, +2*base for DISCOURAGED, -base
\* for PREFERRED and -2*base for REQUIRED; NEUTRAL entries add no term; base
\* is the integer value of weight "instructor_time_preference", default 10.
\* A term of weight 0 adds nothing to the objective and is not looked for.
C27_PreferenceTerms ==
    /\ pc = "soft" =>
          /\ \A c \in PreferenceCases :
                IF CaseWeight(c) = 0
                THEN TermsOf(c) = {}
                ELSE /\ Cardinality(TermsOf(c)) = 1
                     /\ \A t \in TermsOf(c) :
                           /\ t.penalty_value = CaseWeight(c)
                           /\ \A ones \in ModelSolutions :
                                 penalty_var_value(t, ones) = 1
                                     <=> CaseHolds(c, ones)
          /\ preference_penalties = UNION {TermsOf(c) : c \in PreferenceCases}
    /\ (pc = "solved" /\ status \in {"optimal", "feasible"}) =>
          objective_value =
              SumLoads({<<c, IF CaseHolds(c, solution) THEN CaseWeight(c) ELSE 0>> :
                           c \in PreferenceCases})
                + SumLoads({<<i, PenaltyAt(load_values[i])>> :
                               i \in DOMAIN load_values})

C27_Witness ==
    /\ pc = "solved"
    /\ status = "optimal"
    /\ objective_value < 0
    /\ \E t \in preference_penalties : t.instructor_var = {}
    /\ \E t \in preference_penalties : t.penalty_value = 200


(***************************************************************************)
(* C28: the workload penalties of an optimal solution                      *)
(***************************************************************************)
\* the sections (by position) that could use instructor i: i is a candidate
\* with a variable, or pre-assigned
CouldUse(i) ==
    {k \in DOMAIN input.sections :
        \/ <<input.sections[k].id, i>> \in DOMAIN section_instructor_vars
        \/ i \in Range(input.sections[k].assigned_instructor_ids)}

Max0(n) == IF n > 0 THEN n ELSE 0
Distance(a, b) == IF a >= b THEN a - b ELSE b - a

\* what the solve penalised for instructor i, 0 where it has no such variable
PenalisedUnderload(i) ==
    IF i \in DOMAIN load_values
    THEN SumLoads({<<"underload", u>> : u \in load_values[i].underload}) ELSE 0
PenalisedOverload(i) ==
    IF i \in DOMAIN load_values THEN load_values[i].overload ELSE 0
PenalisedDeviation(i) ==
    IF i \in DOMAIN load_values
    THEN SumLoads({<<"deviation", d>> : d \in load_values[i].deviation}) ELSE 0

\* sum over the preference cases of weight * g
PreferencePart ==
    SumLoads({<<c, IF CaseHolds(c, solution) THEN CaseWeight(c) ELSE 0>> :
                 c \in PreferenceCases})

\* L_i in hundredths of a load unit: credit_hours * 10 summed as numbers
ExactLoad(i) ==
    SumLoads({<<k, input.sections[k].credit_hours * 10>> :
                 k \in {k \in CouldUse(i) : InstructorTerm(solution, i, k)}})

\* C28 as stated: in every optimal solution, for each instructor i with load
\* L_i = sum over the sections that could use i of (credit_hours*10) * A[s,i],
\* the penalised quantities equal underload_i = max(0, min_load*10 - L_i),
\* overload_i = max(0, L_i - max_load*10) and, when target_load is set,
\* deviation_i = |L_i - target_load*10|, and they enter the objective with
\* weights 20, 50 and 5.  Both sides are in hundredths of a load unit.
C28_WorkloadPenalties ==
    (pc = "solved" /\ status = "optimal") =>
        /\ \A k \in DOMAIN input.instructors :
              LET i == input.instructors[k]
              IN  /\ 100 * PenalisedUnderload(i.id) =
                         Max0(i.min_load * 10 - ExactLoad(i.id))
                  /\ 100 * PenalisedOverload(i.id) =
                         Max0(ExactLoad(i.id) - i.max_load * 10)
                  /\ \A t \in i.target_load :
                         100 * PenalisedDeviation(i.id) =
                             Distance(ExactLoad(i.id), t * 10)
        /\ objective_value =
              PreferencePart
                + SumLoads({<<k, 20 * PenalisedUnderload(input.instructors[k].id)
                                  + 50 * PenalisedOverload(input.instructors[k].id)
                                  + 5 * PenalisedDeviation(input.instructors[k].id)>> :
                               k \in DOMAIN input.instructors})

\* L_i as the solve computes it: int(credit_hours * 10) per section
ScaledLoad(i) ==
    SumLoads({<<k, int_times_10(input.sections[k].credit_hours)>> :
                 k \in {k \in CouldUse(i) : InstructorTerm(solution, i, k)}})

\* C28 as the solve behaves: in every optimal solution, for each instructor i
\* that at least one section could use, with L_i = sum over those sections
\* of int(credit_hours*10) * A[s,i], the penalised quantities are
\* underload_i = max(0, int(min_load*10) - L_i) when min_load > 0,
\* overload_i = max(0, L_i - int(max_load*10)) and, when target_load is set,
\* deviation_i = |L_i - int(target_load*10)|; an instructor that no section
\* could use has no penalised quantity; the quantities enter the objective
\* with weights 20, 50 and 5
C28_WorkloadPenaltiesScaled ==
    (pc = "solved" /\ status = "optimal") =>
        /\ DOMAIN load_values =
              {input.instructors[k].id : k \in
                  {k \in DOMAIN input.instructors :
                      CouldUse(input.instructors[k].id) # {}}}
        /\ \A k \in DOMAIN input.instructors :
              LET i == input.instructors[k]
              IN  i.id \in DOMAIN load_values =>
                    /\ load_values[i.id].total_load = ScaledLoad(i.id)
                    /\ load_values[i.id].underload =
                          IF i.min_load > 0
                          THEN {Max0(int_times_10(i.min_load) - ScaledLoad(i.id))}
                          ELSE {}
                    /\ load_values[i.id].overload =
                          Max0(ScaledLoad(i.id) - int_times_10(i.max_load))
                    /\ load_values[i.id].deviation =
                          {Distance(ScaledLoad(i.id), int_times_10(t)) :
                              t \in i.target_load}
        /\ objective_value =
              PreferencePart
                + SumLoads({<<i, 20 * PenalisedUnderload(i)
                                  + 50 * PenalisedOverload(i)
                                  + 5 * PenalisedDeviation(i)>> :
                               i \in DOMAIN load_values})

\* an optimal solve with an instructor left below min_load, and an
\* instructor that no section could use
C28_Witness ==
    /\ pc = "solved"
    /\ status = "optimal"
    /\ input \in WorkloadInputs
    /\ objective_value > 0
    /\ \E i \in DOMAIN load_values : PenalisedUnderload(i) > 0
    /\ \E k \in DOMAIN input.instructors :
          input.instructors[k].id \notin DOMAIN load_values


(***************************************************************************)
(* C29: a save of an output with no assigned section                       *)
(***************************************************************************)
\* the save of w has committed, and no other save has committed since w made
\* its call: the tables are those w found, changed by w alone
SavedOver(w) ==
    /\ txn[w].pc = "done"
    /\ commit_order # <<>>
    /\ commit_order[Len(commit_order)] = w
    /\ Range(commit_order) \ {w} = txn[w].began_after

\* C29: the solve-from-db path saves every solver outcome, and
\* save_solver_output applied to an output with no assigned sections (status
\* infeasible, timeout or error) still expires every live solver-sourced
\* assignment of that schedule version and inserts none: after a failed
\* re-solve the version has zero live solver-sourced assignments, whatever
\* it held before
C29_FailedResolveClearsVersion ==
    \A w \in Writers :
        /\ (txn[w].via = "solve_from_database" /\ txn[w].pc # "idle") =>
              /\ txn[w].pc \in Steps \cup {"done", "failed"}
              /\ SavedOver(w) =>
                    \E r \in solver_runs :
                        /\ r.id = txn[w].output.solver_run_id
                        /\ r.status = txn[w].output.status
        /\ (SavedOver(w) /\ assigned(txn[w].output) = {}) =>
              /\ LiveSolverRows(section_assignments,
                                txn[w].schedule_version_id) = {}
              /\ \A r \in section_assignments : r.id[1] # w
              /\ \A r \in LiveSolverRows(txn[w].before.section_assignments,
                                         txn[w].schedule_version_id) :
                    [r EXCEPT !.valid_to = {NowOf(w)}] \in section_assignments

\* a solve-from-db whose solve timed out or failed has committed its save over
\* a version that held a live solver row
C29_Witness ==
    \E w \in Writers :
        /\ SavedOver(w)
        /\ txn[w].via = "solve_from_database"
        /\ txn[w].output.status \in {"timeout", "error"}
        /\ LiveSolverRows(txn[w].before.section_assignments,
                          txn[w].schedule_version_id) # {}
        /\ LiveSolverRows(section_assignments, txn[w].schedule_version_id) = {}


(***************************************************************************)
(* The pool specification: tasks calling init_pool, get_connection and     *)
(* close_pool from the state where no pool exists                          *)
(***************************************************************************)
PoolInit ==
    /\ SolverAtRest
    /\ DatabaseAtRest
    /\ PoolNotCreated

PoolNext ==
    \/ InitPoolCall
    \/ CreatePoolReturns
    \/ CreatePoolRaises
    \/ ClosePoolCall
    \/ ClosePoolReturns

PoolSpec == PoolInit /\ [][PoolNext]_vars

\* the pools that were created and not closed
OpenPools == {k \in DOMAIN pools : pools[k] = "open"}

\* C30: the connection pool is a process-wide singleton under concurrency:
\* for any interleaving of init_pool / get_connection calls that start while
\* no pool exists, the pool is created at most once and every caller
\* receives that same pool (no second pool is created and left
\* unreferenced), and after close_pool a later init_pool creates exactly one
\* new pool
C30_PoolSingleton ==
    /\ \A k \in OpenPools : _pool = {k}
    /\ \A c, d \in Callers :
          (/\ calls[c].via \in {"init_pool", "get_connection"}
           /\ calls[d].via \in {"init_pool", "get_connection"}
           /\ calls[c].pc = "returned"
           /\ calls[d].pc = "returned"
           /\ calls[c].pool \cup calls[d].pool \subseteq OpenPools)
              => calls[c].pool = calls[d].pool
    /\ \A c \in Callers :
          (calls[c].via \in {"init_pool", "get_connection"}
              /\ calls[c].pc = "returned") => calls[c].pool # {}

====
